---- MODULE Spec2Model ----
(***************************************************************************)
(* Face-tracking control kernel of ag_reachy_mini_vision_tracking:          *)
(*   vision/pid_controller.py   PIDController                               *)
(*   vision/face_tracker.py     DetectedFace, TrackingResult, FaceTracker   *)
(*   robot/controller.py        RobotController                             *)
(*                                                                         *)
(* Python floats are modelled as exact rationals [n |-> numerator,          *)
(* d |-> denominator], kept in lowest terms with d > 0, so that products,   *)
(* quotients by dt and clamps are computed as the code computes them, up to *)
(* floating-point rounding.                                                 *)
(***************************************************************************)
EXTENDS Integers, Sequences, FiniteSets, TLC

VARIABLES
    pid,                \* a stand-alone PIDController
    pid_out,            \* value returned by its last update
    pid_op,             \* its last call: "new", "update" or "reset"
    pid_prev_op,        \* the call before that
    pid_err,            \* arguments of its last update
    pid_dt,
    pid_wiped,          \* TRUE iff its last reset discarded a non-zero state
    pid_div,            \* <<>>, or <<dt>>: the dt the last update divided by
    pid_n,              \* number of updates of the pair of controllers so far
    pid_mirror,         \* a second PIDController with the same gains and limits
    pid_mirror_out,     \* the value its last update returned
    sel_faces,          \* a face list handed to FaceTracker._select_target
    sel_target,         \* what _select_target returned for it (0 = None)
    sel_done,           \* TRUE once _select_target has returned
    config,             \* the Config object
    pid_yaw,            \* FaceTracker.pid_yaw
    pid_pitch,          \* FaceTracker.pid_pitch
    lost_frames,        \* FaceTracker._lost_frames
    result,             \* TrackingResult returned by the last FaceTracker.update
    frame_dt,           \* dt argument of the last FaceTracker.update
    frame_log,          \* per frame so far: TRUE iff a target was selected
    pid_calls,          \* PIDController methods the last frame called
    current_yaw_deg,    \* RobotController._current_yaw_deg
    current_pitch_deg,  \* RobotController._current_pitch_deg
    pose_arg,           \* argument of the last calculate_head_pose (<<>> = None)
    pose_prev,          \* <<yaw, pitch>> before the last calculate_head_pose
    ticks,              \* number of calculate_head_pose calls so far
    pose_out,           \* <<yaw, pitch>> of the pose calculate_head_pose returned
    ant_arg,            \* arguments of the last calculate_antenna_positions (<<>> = none yet)
    ant_out,            \* <<left, right>> it returned, in multiples of pi radians
    ctl_pc,             \* main.py run(): where the control loop is
    ctl_stop,           \* main.py run(): stop_event
    antennas_enabled,   \* main.py run(): antennas_enabled
    sound_play_requested, \* main.py run(): sound_play_requested
    current_finger_count, \* main.py: self.current_finger_count
    ctl_finger_count,   \* main.py run(): finger_count read by the current tick
    ctl_tick_enabled,   \* antennas_enabled when the current tick started
    ctl_on_seen,        \* TRUE iff POST /antennas enabled=true completed since then
    ctl_cmds,           \* antenna angles of the set_target calls made so far
    ctl_plays,          \* number of play_sound calls made so far
    snd_requests,       \* number of POST /play_sound requests completed so far
    http_resp,          \* body of the last HTTP response of main.py's handlers
    vid_pc,             \* main.py process_video_stream: where the video thread is
    vid_cap,            \* main.py process_video_stream: cap, "none", "open" or "released"
    vid_landmarker,     \* main.py: self.landmarker, "none", "open" or "closed"
    vid_total,          \* main.py process_video_stream: total_fingers of this frame
    vid_released,       \* the resources the video thread gave up, in order
    app_state,          \* AppState._state
    api_last,           \* <<>>, or <<[req, before, resp]>> of the endpoint that just answered
    active_connections, \* ConnectionManager.active_connections
    ws_state,           \* per websocket: where its /ws endpoint is
    bc_pc,              \* broadcast: where the running call is
    bc_connections,     \* broadcast: connections, the snapshot
    bc_i,               \* broadcast: index of the next connection of the for loop
    bc_disconnected,    \* broadcast: disconnected
    bc_sent,            \* connections whose send_json returned in this call
    bc_removed,         \* connections this call removed from the registry
    bc_n,               \* number of broadcast calls started so far
    ws_gone,            \* websockets whose peer has gone: a send on them raises
    ws_wire,            \* per websocket: the messages sent on it, in order
    vis_pc,             \* _process_loop: where the vision thread is
    vis_stop,           \* VideoProcessor.stop_event
    vis_init_failed,    \* TRUE iff the camera or a detector was unavailable
    vis_iter,           \* number of loop iterations started so far
    vis_events,         \* what the current iteration has done, in order
    vis_snap,           \* <<pid_yaw, pid_pitch, lost_frames>> when it started
    vis_caught,         \* <<iteration, source>> of each exception the guard caught
    cb_log,             \* [kind, iter] of each callback invocation, in order
    vis_stop_at,        \* <<>>, or <<[iter, pc]>>: where the loop was when stop was set
    vis_proc,           \* time the current iteration took before its pacing sleep
    vis_slept,          \* duration of the pacing sleep of the current iteration
    as_lock,            \* AppState._lock: the task that holds it, or "free"
    cm_lock,            \* ConnectionManager._lock: the task that holds it, or "free"
    lk_running,         \* the coroutine the event loop is running, or "none"
    lk_pc,              \* per task: where it is in the call it is making
    lk_op,              \* per task: the call it is making
    lk_ret,             \* per task: what the call has read so far
    lk_snap,            \* per task: the fields when it took the AppState lock
    lk_committed,       \* the fields as the completed calls have left them
    own_pc,             \* the owner of the VideoProcessor: where it is in start or stop
    own_op,             \* the last call the owner made: "none", "start" or "stop"
    own_n,              \* number of calls the owner has made
    own_joined,         \* TRUE iff the thread had ended when the last join returned
    vp_thread,          \* VideoProcessor.thread: "none" or "set"
    vp_started,         \* number of threads start has created
    vp_orphans,         \* threads still running that self.thread no longer refers to
    cam_released,       \* TRUE iff stop has released the camera handler
    hands_closed,       \* TRUE iff stop has closed the hand detector
    faces_closed,       \* TRUE iff stop has closed the face tracker
    app_config,         \* legacy Application: REACTION_DELAY and REACTION_COOLDOWN, in 1/10 s
    last_finger_count,  \* Application.last_finger_count
    finger_count_stable_time, \* Application.finger_count_stable_time, in 1/10 s
    app_now,            \* time.perf_counter(), in 1/10 s
    app_frames,         \* number of passes of the loop of Application.run so far
    app_frame_at,       \* current_time of the last frame that was processed
    app_fc,             \* finger_count of the last frame processed, -1 before the first
    app_prev_fc,        \* finger_count of the frame processed before it, or -1
    app_changed_at,     \* current_time of the last frame whose count differed from the one before
    app_reacted,        \* TRUE iff the last frame processed called react_to_finger_count
    rc_connected,       \* legacy RobotController: connected and robot is set
    current_yaw,        \* RobotController.current_yaw, in steps of 30 degrees
    rc_n,               \* number of move calls so far
    rc_last             \* <<>>, or <<[direction, before, issued]>> of the last move call

pidVars == <<pid, pid_out, pid_op, pid_prev_op, pid_err, pid_dt, pid_wiped,
             pid_div, pid_n, pid_mirror, pid_mirror_out>>

selVars == <<sel_faces, sel_target, sel_done>>

trackerVars == <<pid_yaw, pid_pitch, lost_frames, result, frame_dt, frame_log, pid_calls>>

poseVars == <<current_yaw_deg, current_pitch_deg, pose_arg, pose_prev, ticks, pose_out>>

antVars == <<ant_arg, ant_out>>

\* the variables of the components added after the tracking kernel
vidVars == <<vid_pc, vid_cap, vid_landmarker, vid_total, vid_released>>

ctlVars == <<ctl_pc, ctl_stop, antennas_enabled, sound_play_requested,
             current_finger_count, ctl_finger_count, ctl_tick_enabled,
             ctl_on_seen, ctl_cmds, ctl_plays, snd_requests, http_resp, vidVars>>

apiVars == <<app_state, api_last>>

wsVars == <<active_connections, ws_state, bc_pc, bc_connections, bc_i,
            bc_disconnected, bc_sent, bc_removed, bc_n, ws_gone, ws_wire>>

visVars == <<vis_pc, vis_stop, vis_init_failed, vis_iter, vis_events, vis_snap,
             vis_caught, cb_log, vis_stop_at, vis_proc, vis_slept>>

lockVars == <<as_lock, cm_lock, lk_running, lk_pc, lk_op, lk_ret, lk_snap,
              lk_committed>>

lifeVars == <<own_pc, own_op, own_n, own_joined, vp_thread, vp_started,
              vp_orphans, cam_released, hands_closed, faces_closed>>

appVars == <<app_config, last_finger_count, finger_count_stable_time, app_now,
             app_frames, app_frame_at, app_fc, app_prev_fc, app_changed_at,
             app_reacted>>

rcVars == <<rc_connected, current_yaw, rc_n, rc_last>>

\* the variables of the components added last
lateVars == <<lifeVars, appVars, rcVars>>

extVars == <<antVars, ctlVars, apiVars, wsVars, visVars, lockVars, lateVars>>

vars == <<pidVars, selVars, config, trackerVars, poseVars, extVars>>

----------------------------------------------------------------------------
(* Bounds of the model *)

MaxFaces == 2

MaxFrames == 3

MaxTicks == 4

MaxThreshold == 3

MaxSelFaces == 4

ScenarioFrames == 30

MaxRequests == 2

MaxFingerCount == 2

MaxConns == 2

MaxBroadcasts == 2

MaxPidCalls == 2

MaxOwnerCalls == 3

MaxAppFrames == 6

MaxMoves == 14

MaxIters == 3

----------------------------------------------------------------------------
(* Exact arithmetic standing for Python float arithmetic *)

Abs(x) == IF x < 0 THEN -x ELSE x

RECURSIVE GCD(_, _)
GCD(a, b) == IF b = 0 THEN a ELSE GCD(b, a % b)

Rat(n, d) ==
    LET s == IF d < 0 THEN -1 ELSE 1
        g == GCD(Abs(n), Abs(d))
    IN  [n |-> (s * n) \div g, d |-> (s * d) \div g]

Zero == Rat(0, 1)

Half == Rat(1, 2)

RAdd(a, b) == Rat(a.n * b.d + b.n * a.d, a.d * b.d)

RSub(a, b) == Rat(a.n * b.d - b.n * a.d, a.d * b.d)

RMul(a, b) == Rat(a.n * b.n, a.d * b.d)

RDiv(a, b) == Rat(a.n * b.d, a.d * b.n)

RNeg(a) == [n |-> -a.n, d |-> a.d]

RLe(a, b) == a.n * b.d <= b.n * a.d

RLt(a, b) == a.n * b.d < b.n * a.d

RMax(a, b) == IF RLt(a, b) THEN b ELSE a

RMin(a, b) == IF RLt(b, a) THEN b ELSE a

\* a clip that applies the lower limit only
NpClipLowerOnly(x, lo, hi) == RMax(x, lo)

\* numpy.clip(x, lo, hi) = minimum(maximum(x, lo), hi)
NpClip(x, lo, hi) == RMin(RMax(x, lo), hi)

----------------------------------------------------------------------------
(* vision/pid_controller.py *)

DefaultOutputLimit == Rat(1, 1)

DefaultIntegralLimit == Rat(1, 2)

DtFloor == Rat(1, 1000)

PIDController(kp, ki, kd, output_limit, integral_limit) ==
    [kp |-> kp, ki |-> ki, kd |-> kd,
     output_limit |-> output_limit, integral_limit |-> integral_limit,
     integral |-> Zero, prev_error |-> Zero]

\* update without the clamp of the integral
PIDUpdateNoClamp(p, error, dt0) ==
    LET dt         == IF RLe(dt0, Zero) THEN DtFloor ELSE dt0
        integral   == RAdd(p.integral, RMul(error, dt))
        derivative == RDiv(RSub(error, p.prev_error), dt)
        output     == RAdd(RAdd(RMul(p.kp, error), RMul(p.ki, integral)),
                           RMul(p.kd, derivative))
    IN  [pid |-> [p EXCEPT !.integral = integral, !.prev_error = error],
         out |-> NpClip(output, RNeg(p.output_limit), p.output_limit),
         dt  |-> dt]

\* update that does not remember the error it was given
PIDUpdateStalePrev(p, error, dt0) ==
    LET dt         == IF RLe(dt0, Zero) THEN DtFloor ELSE dt0
        acc        == RAdd(p.integral, RMul(error, dt))
        integral   == NpClip(acc, RNeg(p.integral_limit), p.integral_limit)
        derivative == RDiv(RSub(error, p.prev_error), dt)
        output     == RAdd(RAdd(RMul(p.kp, error), RMul(p.ki, integral)),
                           RMul(p.kd, derivative))
    IN  [pid |-> [p EXCEPT !.integral = integral],
         out |-> NpClip(output, RNeg(p.output_limit), p.output_limit),
         dt  |-> dt]

\* update that replaces a zero dt only
PIDUpdateFloorsZeroOnly(p, error, dt0) ==
    LET dt         == IF dt0 = Zero THEN DtFloor ELSE dt0
        acc        == RAdd(p.integral, RMul(error, dt))
        integral   == NpClip(acc, RNeg(p.integral_limit), p.integral_limit)
        derivative == RDiv(RSub(error, p.prev_error), dt)
        output     == RAdd(RAdd(RMul(p.kp, error), RMul(p.ki, integral)),
                           RMul(p.kd, derivative))
    IN  [pid |-> [p EXCEPT !.integral = integral, !.prev_error = error],
         out |-> NpClip(output, RNeg(p.output_limit), p.output_limit),
         dt  |-> dt]

\* PIDController.update: the controller after the call, the value returned,
\* and the dt the derivative was divided by
PIDUpdate(p, error, dt0) ==
    LET dt         == IF RLe(dt0, Zero) THEN DtFloor ELSE dt0
        acc        == RAdd(p.integral, RMul(error, dt))
        integral   == NpClip(acc, RNeg(p.integral_limit), p.integral_limit)
        derivative == RDiv(RSub(error, p.prev_error), dt)
        output     == RAdd(RAdd(RMul(p.kp, error), RMul(p.ki, integral)),
                           RMul(p.kd, derivative))
    IN  [pid |-> [p EXCEPT !.integral = integral, !.prev_error = error],
         out |-> NpClip(output, RNeg(p.output_limit), p.output_limit),
         dt  |-> dt]

\* reset that zeroes only one of the two fields
PIDResetKeepsIntegral(p) == [p EXCEPT !.prev_error = Zero]

PIDResetKeepsError(p) == [p EXCEPT !.integral = Zero]

PIDReset(p) == [p EXCEPT !.integral = Zero, !.prev_error = Zero]

----------------------------------------------------------------------------
(* config/config_loader.py: configurations the components are built from *)

DefaultConfig ==
    [kp_yaw |-> Rat(30, 1), ki_yaw |-> Zero, kd_yaw |-> Rat(5, 1),
     kp_pitch |-> Rat(20, 1), ki_pitch |-> Zero, kd_pitch |-> Rat(3, 1),
     yaw_amplitude |-> Rat(30, 1),
     pitch_min |-> Rat(-20, 1), pitch_max |-> Rat(20, 1),
     antenna_amplitude |-> Rat(20, 1), antenna_frequency |-> Rat(1, 2),
     target_fps |-> 30,
     lost_threshold |-> 10]

\* a configuration with integral action and tight limits
SoftConfig ==
    [kp_yaw |-> Rat(2, 1), ki_yaw |-> Rat(1, 1), kd_yaw |-> Rat(1, 2),
     kp_pitch |-> Rat(1, 1), ki_pitch |-> Rat(2, 1), kd_pitch |-> Zero,
     yaw_amplitude |-> Rat(2, 1),
     pitch_min |-> Rat(-1, 1), pitch_max |-> Rat(1, 1),
     antenna_amplitude |-> Rat(10, 1), antenna_frequency |-> Rat(3, 2),
     target_fps |-> 10,
     lost_threshold |-> 10]

\* a configuration whose pitch range does not contain the neutral pose
RaisedConfig ==
    [DefaultConfig EXCEPT !.pitch_min = Rat(5, 1)]

\* configurations of the tracker, for each lost-frame threshold
Configs ==
    { [c EXCEPT !.lost_threshold = n] :
        c \in {DefaultConfig, SoftConfig}, n \in 1..MaxThreshold }

\* configurations of the robot controller
PoseConfigs == { DefaultConfig, SoftConfig, RaisedConfig }

----------------------------------------------------------------------------
(* vision/face_tracker.py *)

DetectedFace(x_center, y_center, width, height, score) ==
    [x_center |-> x_center, y_center |-> y_center,
     width |-> width, height |-> height, score |-> score]

Area(f) == RMul(f.width, f.height)

\* faces the detector may report; they have the same area
FaceSet ==
    { DetectedFace(Rat(3, 4), Rat(1, 2), Rat(1, 2), Rat(1, 4), Rat(9, 10)),
      DetectedFace(Rat(1, 4), Rat(3, 4), Rat(1, 4), Rat(1, 2), Rat(4, 5)) }

FaceLists == UNION { [1..k -> FaceSet] : k \in 0..MaxFaces }

Dts == { Rat(1, 2), Rat(1, 1) }

\* TrackingResult; target is the position of the chosen face in faces, 0 = None
TrackingResult(faces, target, dx, dy, tracking) ==
    [faces |-> faces, target |-> target, dx |-> dx, dy |-> dy,
     tracking |-> tracking,
     yaw_correction_deg |-> Zero, pitch_correction_deg |-> Zero]

\* a scan in which a later face of equal area replaces the current best
RECURSIVE MaxScanLast(_, _, _)
MaxScanLast(faces, i, best) ==
    IF i > Len(faces) THEN best
    ELSE IF RLe(Area(faces[best]), Area(faces[i]))
         THEN MaxScanLast(faces, i + 1, i)
         ELSE MaxScanLast(faces, i + 1, best)

\* max(faces, key=area): scan left to right, a later face replaces the
\* current best only when its key is strictly greater
RECURSIVE MaxScan(_, _, _)
MaxScan(faces, i, best) ==
    IF i > Len(faces) THEN best
    ELSE IF RLt(Area(faces[best]), Area(faces[i]))
         THEN MaxScan(faces, i + 1, i)
         ELSE MaxScan(faces, i + 1, best)

SelectTarget(faces) ==
    IF Len(faces) = 0 THEN 0 ELSE MaxScan(faces, 2, 1)

FaceTrackerInit ==
    /\ pid_yaw = PIDController(config.kp_yaw, config.ki_yaw, config.kd_yaw,
                               config.yaw_amplitude, DefaultIntegralLimit)
    /\ pid_pitch = PIDController(config.kp_pitch, config.ki_pitch, config.kd_pitch,
                                 config.pitch_max, DefaultIntegralLimit)
    /\ lost_frames = 0
    /\ result = TrackingResult(<<>>, 0, Zero, Zero, FALSE)
    /\ frame_dt = Zero
    /\ frame_log = <<>>
    /\ pid_calls = <<>>

\* a threshold test that every lost frame passes
LostReachedAlways(n, threshold) == n >= 1

\* self._lost_frames >= self._lost_threshold
LostReached(n, threshold) == n >= threshold

\* a no-target branch that hands out the corrections of the frame before
OnNoTargetStale(faces) ==
    /\ lost_frames' = lost_frames + 1
    /\ IF LostReached(lost_frames + 1, config.lost_threshold)
       THEN /\ pid_yaw' = PIDReset(pid_yaw)
            /\ pid_pitch' = PIDReset(pid_pitch)
            /\ pid_calls' = <<"yaw.reset", "pitch.reset">>
       ELSE /\ UNCHANGED <<pid_yaw, pid_pitch>>
            /\ pid_calls' = <<>>
    /\ result' = [TrackingResult(faces, 0, Zero, Zero, FALSE)
                     EXCEPT !.yaw_correction_deg = result.yaw_correction_deg,
                            !.pitch_correction_deg = result.pitch_correction_deg]

\* FaceTracker.update, branch "target is None"
OnNoTarget(faces) ==
    /\ lost_frames' = lost_frames + 1
    /\ IF LostReached(lost_frames + 1, config.lost_threshold)
       THEN /\ pid_yaw' = PIDReset(pid_yaw)
            /\ pid_pitch' = PIDReset(pid_pitch)
            /\ pid_calls' = <<"yaw.reset", "pitch.reset">>
       ELSE /\ UNCHANGED <<pid_yaw, pid_pitch>>
            /\ pid_calls' = <<>>
    /\ result' = TrackingResult(faces, 0, Zero, Zero, FALSE)

\* a target branch that leaves the lost-frame counter alone
OnTargetKeepsCount(faces, target, dt) ==
    LET dx == RSub(faces[target].x_center, Half)
        dy == RSub(faces[target].y_center, Half)
        uy == PIDUpdate(pid_yaw, dx, dt)
        up == PIDUpdate(pid_pitch, dy, dt)
    IN  /\ UNCHANGED lost_frames
        /\ pid_yaw' = uy.pid
        /\ pid_pitch' = up.pid
        /\ pid_calls' = <<"yaw.update", "pitch.update">>
        /\ result' = [TrackingResult(faces, target, dx, dy, TRUE)
                         EXCEPT !.yaw_correction_deg = RNeg(uy.out),
                                !.pitch_correction_deg = up.out]

\* a target branch that feeds the vertical offset to the yaw controller
OnTargetCrossed(faces, target, dt) ==
    LET dx == RSub(faces[target].x_center, Half)
        dy == RSub(faces[target].y_center, Half)
        uy == PIDUpdate(pid_yaw, dy, dt)
        up == PIDUpdate(pid_pitch, dy, dt)
    IN  /\ lost_frames' = 0
        /\ pid_yaw' = uy.pid
        /\ pid_pitch' = up.pid
        /\ pid_calls' = <<"yaw.update", "pitch.update">>
        /\ result' = [TrackingResult(faces, target, dx, dy, TRUE)
                         EXCEPT !.yaw_correction_deg = RNeg(uy.out),
                                !.pitch_correction_deg = up.out]

\* a target branch that hands out the yaw output without negating it
OnTargetNotNegated(faces, target, dt) ==
    LET dx == RSub(faces[target].x_center, Half)
        dy == RSub(faces[target].y_center, Half)
        uy == PIDUpdate(pid_yaw, dx, dt)
        up == PIDUpdate(pid_pitch, dy, dt)
    IN  /\ lost_frames' = 0
        /\ pid_yaw' = uy.pid
        /\ pid_pitch' = up.pid
        /\ pid_calls' = <<"yaw.update", "pitch.update">>
        /\ result' = [TrackingResult(faces, target, dx, dy, TRUE)
                         EXCEPT !.yaw_correction_deg = uy.out,
                                !.pitch_correction_deg = up.out]

\* FaceTracker.update, branch with a target
OnTarget(faces, target, dt) ==
    LET dx == RSub(faces[target].x_center, Half)
        dy == RSub(faces[target].y_center, Half)
        uy == PIDUpdate(pid_yaw, dx, dt)
        up == PIDUpdate(pid_pitch, dy, dt)
    IN  /\ lost_frames' = 0
        /\ pid_yaw' = uy.pid
        /\ pid_pitch' = up.pid
        /\ pid_calls' = <<"yaw.update", "pitch.update">>
        /\ result' = [TrackingResult(faces, target, dx, dy, TRUE)
                         EXCEPT !.yaw_correction_deg = RNeg(uy.out),
                                !.pitch_correction_deg = up.out]

\* FaceTracker.update on a frame for which the detector reports faces
FaceTrackerUpdate(faces, dt) ==
    LET target == SelectTarget(faces) IN
    /\ frame_log' = Append(frame_log, target # 0)
    /\ frame_dt' = dt
    /\ IF target = 0
       THEN OnNoTarget(faces)
       ELSE OnTarget(faces, target, dt)

Frame ==
    /\ Len(frame_log) < MaxFrames
    /\ \E faces \in FaceLists, dt \in Dts : FaceTrackerUpdate(faces, dt)
    /\ UNCHANGED <<pidVars, selVars, config, poseVars, extVars>>

\* frames with one face far right, near right or far left of the centre
SignFaceLists ==
    { <<>>,
      << DetectedFace(Rat(3, 4), Rat(1, 2), Rat(1, 2), Rat(1, 4), Rat(9, 10)) >>,
      << DetectedFace(Rat(17, 32), Rat(1, 2), Rat(1, 2), Rat(1, 4), Rat(9, 10)) >>,
      << DetectedFace(Rat(1, 4), Rat(1, 2), Rat(1, 2), Rat(1, 4), Rat(9, 10)) >> }

SignFrame ==
    /\ Len(frame_log) < MaxFrames
    /\ \E faces \in SignFaceLists, dt \in Dts : FaceTrackerUpdate(faces, dt)
    /\ UNCHANGED <<pidVars, selVars, config, poseVars, extVars>>

\* _select_target applied to one list of detections
SelFaceSet ==
    { DetectedFace(Rat(1, 4), Rat(1, 2), Rat(1, 5), Rat(1, 10), Rat(9, 10)),
      DetectedFace(Rat(1, 2), Rat(1, 2), Rat(1, 4), Rat(1, 5), Rat(4, 5)),
      DetectedFace(Rat(3, 4), Rat(1, 4), Rat(1, 5), Rat(1, 4), Rat(7, 10)),
      DetectedFace(Rat(1, 1), Rat(3, 4), Rat(1, 10), Rat(1, 10), Rat(3, 5)) }

SelectIdle ==
    /\ sel_faces = <<>>
    /\ sel_target = 0
    /\ sel_done = FALSE

SelectInit ==
    /\ sel_faces \in UNION { [1..k -> SelFaceSet] : k \in 0..MaxSelFaces }
    /\ sel_target = 0
    /\ sel_done = FALSE

CallSelect ==
    /\ ~sel_done
    /\ sel_target' = SelectTarget(sel_faces)
    /\ sel_done' = TRUE
    /\ UNCHANGED <<sel_faces, pidVars, config, trackerVars, poseVars, extVars>>

\* the same detection repeated frame after frame with a fixed dt
ScenarioFaces ==
    { DetectedFace(Rat(7, 10), Rat(1, 2), Rat(1, 5), Rat(1, 5), Rat(9, 10)),
      DetectedFace(Rat(1, 4), Rat(1, 2), Rat(1, 5), Rat(1, 5), Rat(9, 10)),
      DetectedFace(Rat(1, 2), Rat(3, 4), Rat(1, 5), Rat(1, 5), Rat(9, 10)) }

ScenarioDts == { Rat(33, 1000), Rat(1, 2) }

ScenarioFrame ==
    /\ Len(frame_log) < ScenarioFrames
    /\ IF frame_log = <<>>
       THEN \E f \in ScenarioFaces, dt \in ScenarioDts : FaceTrackerUpdate(<<f>>, dt)
       ELSE FaceTrackerUpdate(result.faces, frame_dt)
    /\ UNCHANGED <<pidVars, selVars, config, poseVars, extVars>>

----------------------------------------------------------------------------
(* robot/controller.py *)

RobotControllerInit ==
    /\ current_yaw_deg = Zero
    /\ current_pitch_deg = Zero
    /\ pose_arg = <<>>
    /\ pose_prev = <<Zero, Zero>>
    /\ ticks = 0
    /\ pose_out = <<Zero, Zero>>

\* corrections a TrackingResult handed to the controller may carry
YawCorrections == { Rat(-30, 1), Zero, Rat(6, 1) }

PitchCorrections == { Rat(-20, 1), Zero, Rat(3, 1) }

\* arguments of calculate_head_pose: None (<<>>) or a TrackingResult
PoseArgs ==
    { <<>> } \cup
    { << [TrackingResult(<<>>, 0, Zero, Zero, t)
            EXCEPT !.yaw_correction_deg = y, !.pitch_correction_deg = p] >> :
        t \in BOOLEAN, y \in YawCorrections, p \in PitchCorrections }

\* calculate_head_pose without the clamps
CalculateHeadPoseNoClip(arg) ==
    /\ ticks < MaxTicks
    /\ ticks' = ticks + 1
    /\ pose_arg' = arg
    /\ pose_prev' = <<current_yaw_deg, current_pitch_deg>>
    /\ IF arg # <<>> /\ arg[1].tracking
       THEN /\ current_yaw_deg' = RAdd(current_yaw_deg, arg[1].yaw_correction_deg)
            /\ current_pitch_deg' = RAdd(current_pitch_deg, arg[1].pitch_correction_deg)
       ELSE UNCHANGED <<current_yaw_deg, current_pitch_deg>>
    /\ pose_out' = <<current_yaw_deg', current_pitch_deg'>>

\* calculate_head_pose that applies the corrections of any result given
CalculateHeadPoseIgnoresFlag(arg) ==
    /\ ticks < MaxTicks
    /\ ticks' = ticks + 1
    /\ pose_arg' = arg
    /\ pose_prev' = <<current_yaw_deg, current_pitch_deg>>
    /\ IF arg # <<>>
       THEN /\ current_yaw_deg' =
                 NpClip(RAdd(current_yaw_deg, arg[1].yaw_correction_deg),
                        RNeg(config.yaw_amplitude), config.yaw_amplitude)
            /\ current_pitch_deg' =
                 NpClip(RAdd(current_pitch_deg, arg[1].pitch_correction_deg),
                        config.pitch_min, config.pitch_max)
       ELSE UNCHANGED <<current_yaw_deg, current_pitch_deg>>
    /\ pose_out' = <<current_yaw_deg', current_pitch_deg'>>

\* calculate_head_pose that adds the pitch correction to the yaw as well
CalculateHeadPoseCrossed(arg) ==
    /\ ticks < MaxTicks
    /\ ticks' = ticks + 1
    /\ pose_arg' = arg
    /\ pose_prev' = <<current_yaw_deg, current_pitch_deg>>
    /\ IF arg # <<>> /\ arg[1].tracking
       THEN /\ current_yaw_deg' =
                 NpClip(RAdd(RAdd(current_yaw_deg, arg[1].yaw_correction_deg),
                             arg[1].pitch_correction_deg),
                        RNeg(config.yaw_amplitude), config.yaw_amplitude)
            /\ current_pitch_deg' =
                 NpClip(RAdd(current_pitch_deg, arg[1].pitch_correction_deg),
                        config.pitch_min, config.pitch_max)
       ELSE UNCHANGED <<current_yaw_deg, current_pitch_deg>>
    /\ pose_out' = <<current_yaw_deg', current_pitch_deg'>>

\* RobotController.calculate_head_pose(tracking_result)
CalculateHeadPose(arg) ==
    /\ ticks < MaxTicks
    /\ ticks' = ticks + 1
    /\ pose_arg' = arg
    /\ pose_prev' = <<current_yaw_deg, current_pitch_deg>>
    /\ IF arg # <<>> /\ arg[1].tracking
       THEN /\ current_yaw_deg' =
                 NpClip(RAdd(current_yaw_deg, arg[1].yaw_correction_deg),
                        RNeg(config.yaw_amplitude), config.yaw_amplitude)
            /\ current_pitch_deg' =
                 NpClip(RAdd(current_pitch_deg, arg[1].pitch_correction_deg),
                        config.pitch_min, config.pitch_max)
       ELSE UNCHANGED <<current_yaw_deg, current_pitch_deg>>
    /\ pose_out' = <<current_yaw_deg', current_pitch_deg'>>

Tick ==
    /\ \E arg \in PoseArgs : CalculateHeadPose(arg)
    /\ UNCHANGED <<pidVars, selVars, config, trackerVars, extVars>>

\* sin(2*pi*q) for the turns q at which it is rational
SinTurns(q) ==
    LET k == ((12 * q.n) \div q.d) % 12 IN
    CASE k \in {0, 6}  -> Zero
      [] k \in {1, 5}  -> Rat(1, 2)
      [] k = 3         -> Rat(1, 1)
      [] k \in {7, 11} -> Rat(-1, 2)
      [] k = 9         -> Rat(-1, 1)

\* numpy.deg2rad, the result in multiples of pi
Deg2Rad(a) == RDiv(a, Rat(180, 1))

\* values of elapsed_time handed to calculate_antenna_positions
ElapsedTimes == { Rat(1, 6), Rat(3, 2) }

AntennaIdle ==
    /\ ant_arg = <<>>
    /\ ant_out = <<Zero, Zero>>

\* calculate_antenna_positions that does not look at enabled
AntennaPositionsAlwaysOn(elapsed_time, enabled) ==
    LET a == RMul(config.antenna_amplitude,
                  SinTurns(RMul(config.antenna_frequency, elapsed_time)))
    IN  <<Deg2Rad(a), Deg2Rad(RNeg(a))>>

\* the array RobotController.calculate_antenna_positions returns
AntennaPositions(elapsed_time, enabled) ==
    IF ~enabled THEN <<Zero, Zero>>
    ELSE LET a == RMul(config.antenna_amplitude,
                       SinTurns(RMul(config.antenna_frequency, elapsed_time)))
         IN  <<Deg2Rad(a), Deg2Rad(RNeg(a))>>

\* RobotController.calculate_antenna_positions(elapsed_time, enabled)
CalculateAntennaPositions ==
    /\ \E t \in ElapsedTimes, e \in BOOLEAN :
          /\ ant_arg' = << [elapsed_time |-> t, enabled |-> e] >>
          /\ ant_out' = AntennaPositions(t, e)
    /\ UNCHANGED <<pidVars, selVars, config, trackerVars, poseVars, ctlVars,
                   apiVars, wsVars, visVars, lockVars, lateVars>>

----------------------------------------------------------------------------
(* main.py: AgReachyMiniVisionTracking.run, its control loop and the HTTP    *)
(* handlers it registers                                                    *)

\* every attribute an instance of class Config has
ConfigAttributes ==
    { "config_path", "_config", "_load_config", "_get",
      "DEV_MODE", "MODEL_PATH", "HAND_LANDMARKER_MODEL", "FACE_MODEL_PATH",
      "FACE_MODEL_URL", "CAMERA_INDICES", "CAMERA_WIDTH", "CAMERA_HEIGHT",
      "TARGET_FPS", "CAMERA_FLIP_HORIZONTAL", "MAX_HANDS",
      "MIN_DETECTION_CONFIDENCE", "MIN_TRACKING_CONFIDENCE",
      "TRACKING_LOST_THRESHOLD", "TRACKING_KP_YAW", "TRACKING_KI_YAW",
      "TRACKING_KD_YAW", "TRACKING_KP_PITCH", "TRACKING_KI_PITCH",
      "TRACKING_KD_PITCH", "HEAD_PITCH_MIN", "HEAD_PITCH_MAX",
      "HEAD_YAW_AMPLITUDE", "ANTENNA_AMPLITUDE", "ANTENNA_FREQUENCY",
      "CONTROL_LOOP_RATE", "API_HOST", "API_PORT" }

notControl == <<pidVars, selVars, config, trackerVars, poseVars, antVars,
                apiVars, wsVars, visVars, vidVars, lockVars, lateVars>>

\* what the video thread of main.py never writes
notVideo == <<pidVars, selVars, config, trackerVars, poseVars, antVars,
              apiVars, wsVars, visVars, ctl_pc, ctl_stop, antennas_enabled,
              sound_play_requested, ctl_finger_count, ctl_tick_enabled,
              ctl_on_seen, ctl_cmds, ctl_plays, snd_requests, http_resp,
              lockVars, lateVars>>

ControlInit ==
    /\ ctl_pc = "check"
    /\ ctl_stop = FALSE
    /\ antennas_enabled = TRUE
    /\ sound_play_requested = FALSE
    /\ current_finger_count = 0
    /\ ctl_finger_count = 0
    /\ ctl_tick_enabled = TRUE
    /\ ctl_on_seen = FALSE
    /\ ctl_cmds = <<>>
    /\ ctl_plays = 0
    /\ snd_requests = 0
    /\ http_resp = [kind |-> "none"]
    /\ vid_pc = "camera"
    /\ vid_cap = "none"
    /\ vid_landmarker = "none"
    /\ vid_total = 0
    /\ vid_released = <<>>

\* POST /antennas {enabled: e}
PostAntennas ==
    /\ \E e \in BOOLEAN :
          /\ antennas_enabled' = e
          /\ ctl_on_seen' = (ctl_on_seen \/ e)
          /\ http_resp' = [kind |-> "antennas", antennas_enabled |-> e]
    /\ UNCHANGED <<ctl_pc, ctl_stop, sound_play_requested, current_finger_count,
                   ctl_finger_count, ctl_tick_enabled, ctl_cmds, ctl_plays,
                   snd_requests, notControl>>

\* POST /play_sound
PostPlaySound ==
    /\ snd_requests < MaxRequests
    /\ snd_requests' = snd_requests + 1
    /\ sound_play_requested' = TRUE
    /\ http_resp' = [kind |-> "play_sound"]
    /\ UNCHANGED <<ctl_pc, ctl_stop, antennas_enabled, current_finger_count,
                   ctl_finger_count, ctl_tick_enabled, ctl_on_seen, ctl_cmds,
                   ctl_plays, notControl>>

\* GET /finger_count
GetFingerCount ==
    /\ http_resp' = [kind |-> "finger_count", finger_count |-> current_finger_count]
    /\ UNCHANGED <<ctl_pc, ctl_stop, antennas_enabled, sound_play_requested,
                   current_finger_count, ctl_finger_count, ctl_tick_enabled,
                   ctl_on_seen, ctl_cmds, ctl_plays, snd_requests, notControl>>

\* the owner of the app sets stop_event
SetStop ==
    /\ ~ctl_stop
    /\ ctl_stop' = TRUE
    /\ UNCHANGED <<ctl_pc, antennas_enabled, sound_play_requested,
                   current_finger_count, ctl_finger_count, ctl_tick_enabled,
                   ctl_on_seen, ctl_cmds, ctl_plays, snd_requests, http_resp,
                   notControl>>

\* while not stop_event.is_set(): a tick starts, or the loop is left
CtlCheck ==
    /\ ctl_pc = "check"
    /\ IF ctl_stop
       THEN /\ ctl_pc' = "join"
            /\ UNCHANGED <<ctl_tick_enabled, ctl_on_seen>>
       ELSE /\ ctl_pc' = "read"
            /\ ctl_tick_enabled' = antennas_enabled
            /\ ctl_on_seen' = FALSE
    /\ UNCHANGED <<ctl_stop, antennas_enabled, sound_play_requested,
                   current_finger_count, ctl_finger_count, ctl_cmds, ctl_plays,
                   snd_requests, http_resp, notControl>>

\* with self.finger_count_lock: finger_count = self.current_finger_count
CtlRead ==
    /\ ctl_pc = "read"
    /\ ctl_finger_count' = current_finger_count
    /\ ctl_pc' = "pose"
    /\ UNCHANGED <<ctl_stop, antennas_enabled, sound_play_requested,
                   current_finger_count, ctl_tick_enabled, ctl_on_seen, ctl_cmds,
                   ctl_plays, snd_requests, http_resp, notControl>>

\* pitch_deg = np.clip((finger_count - 5) * self.config.HEAD_PITCH_SCALE, ...):
\* Config defines no HEAD_PITCH_SCALE, the read raises AttributeError, and
\* as the loop has no try/except the exception leaves run()
CtlPose ==
    /\ ctl_pc = "pose"
    /\ "HEAD_PITCH_SCALE" \notin ConfigAttributes
    /\ ctl_pc' = "raised"
    /\ UNCHANGED <<ctl_stop, antennas_enabled, sound_play_requested,
                   current_finger_count, ctl_finger_count, ctl_tick_enabled,
                   ctl_on_seen, ctl_cmds, ctl_plays, snd_requests, http_resp,
                   notControl>>

\* video_thread.join(timeout=2.0), then run() returns
CtlJoin ==
    /\ ctl_pc = "join"
    /\ ctl_pc' = "returned"
    /\ UNCHANGED <<ctl_stop, antennas_enabled, sound_play_requested,
                   current_finger_count, ctl_finger_count, ctl_tick_enabled,
                   ctl_on_seen, ctl_cmds, ctl_plays, snd_requests, http_resp,
                   notControl>>

\* process_video_stream: the camera is opened, or the thread returns
VidOpenCamera ==
    /\ vid_pc = "camera"
    /\ \E ok \in BOOLEAN :
          IF ok
          THEN /\ vid_cap' = "open"
               /\ vid_pc' = "model"
          ELSE /\ vid_pc' = "returned"
               /\ UNCHANGED vid_cap
    /\ UNCHANGED <<vid_landmarker, vid_total, vid_released, current_finger_count,
                   notVideo>>

\* process_video_stream: the hand landmarker is created, or the camera is
\* released and the thread returns
VidInitModel ==
    /\ vid_pc = "model"
    /\ \E ok \in BOOLEAN :
          IF ok
          THEN /\ vid_landmarker' = "open"
               /\ vid_pc' = "top"
               /\ UNCHANGED <<vid_cap, vid_released>>
          ELSE /\ vid_cap' = "released"
               /\ vid_released' = Append(vid_released, "camera")
               /\ vid_pc' = "returned"
               /\ UNCHANGED vid_landmarker
    /\ UNCHANGED <<vid_total, current_finger_count, notVideo>>

\* process_video_stream: while not stop_event.is_set()
VidTop ==
    /\ vid_pc = "top"
    /\ vid_pc' = IF ctl_stop THEN "cleanup" ELSE "grab"
    /\ UNCHANGED <<vid_cap, vid_landmarker, vid_total, vid_released,
                   current_finger_count, notVideo>>

\* process_video_stream: cap.grab(); ret, frame = cap.retrieve(); without a
\* frame the thread sleeps and goes back to the loop test
VidGrab ==
    /\ vid_pc = "grab"
    /\ \E ret \in BOOLEAN : vid_pc' = IF ret THEN "detect" ELSE "top"
    /\ UNCHANGED <<vid_cap, vid_landmarker, vid_total, vid_released,
                   current_finger_count, notVideo>>

\* process_video_stream: detect_for_video and the finger count of the frame;
\* an exception of the detector is not caught and ends the thread
VidDetect ==
    /\ vid_pc = "detect"
    /\ \/ /\ vid_pc' = "raised"
          /\ UNCHANGED vid_total
       \/ /\ \E n \in 0..MaxFingerCount : vid_total' = n
          /\ vid_pc' = "store"
    /\ UNCHANGED <<vid_cap, vid_landmarker, vid_released, current_finger_count,
                   notVideo>>

\* process_video_stream: with self.finger_count_lock:
\* self.current_finger_count = total_fingers; then the pacing sleep
VidStore ==
    /\ vid_pc = "store"
    /\ current_finger_count' = vid_total
    /\ vid_pc' = "top"
    /\ UNCHANGED <<vid_cap, vid_landmarker, vid_total, vid_released, notVideo>>

\* process_video_stream, cleanup: if self.landmarker: self.landmarker.close()
VidCloseLandmarker ==
    /\ vid_pc = "cleanup"
    /\ vid_landmarker' = "closed"
    /\ vid_released' = Append(vid_released, "landmarker")
    /\ vid_pc' = "release"
    /\ UNCHANGED <<vid_cap, vid_total, current_finger_count, notVideo>>

\* process_video_stream, cleanup: if cap: cap.release(); the thread returns
VidReleaseCap ==
    /\ vid_pc = "release"
    /\ vid_cap' = "released"
    /\ vid_released' = Append(vid_released, "camera")
    /\ vid_pc' = "returned"
    /\ UNCHANGED <<vid_landmarker, vid_total, current_finger_count, notVideo>>

----------------------------------------------------------------------------
(* app_state.py: AppState, and api/endpoints.py: the HTTP endpoints over it *)

None == "None"

notApi == <<pidVars, selVars, config, trackerVars, poseVars, antVars, ctlVars,
            wsVars, visVars, lockVars, lateVars>>

AppStateInit ==
    /\ app_state = [ finger_count          |-> 0,
                     antennas_enabled      |-> TRUE,
                     sound_play_requested  |-> FALSE,
                     robot_control_command |-> None,
                     hands_data            |-> <<>> ]
    /\ api_last = <<>>

\* direction is any string: the four valid ones and some others
Directions == { "up", "down", "left", "right", "forward", "UP", "" }

HandsData == { <<>>, << "Right" >> }

valid_directions == { "up", "down", "left", "right" }

\* a handler that stores whatever direction it is given
HandleRobotControlUnchecked(state, direction) ==
    [ state |-> [state EXCEPT !.robot_control_command = direction],
      resp  |-> [status |-> "ok", direction |-> direction] ]

\* handle_robot_control: the state after the request and the response body
HandleRobotControl(state, direction) ==
    IF direction \in valid_directions
    THEN [ state |-> [state EXCEPT !.robot_control_command = direction],
           resp  |-> [status |-> "ok", direction |-> direction] ]
    ELSE [ state |-> state,
           resp  |-> [status |-> "error", message |-> "Invalid direction"] ]

\* POST /robot_control {direction: d}
ApiRobotControl ==
    /\ \E d \in Directions :
          LET r == HandleRobotControl(app_state, d) IN
          /\ app_state' = r.state
          /\ api_last' = << [ req    |-> [path |-> "/robot_control", direction |-> d],
                              before |-> app_state,
                              resp   |-> r.resp ] >>
    /\ UNCHANGED notApi

\* POST /antennas {enabled: e}
ApiAntennas ==
    /\ \E e \in BOOLEAN :
          /\ app_state' = [app_state EXCEPT !.antennas_enabled = e]
          /\ api_last' = << [ req    |-> [path |-> "/antennas", enabled |-> e],
                              before |-> app_state,
                              resp   |-> [antennas_enabled |-> e] ] >>
    /\ UNCHANGED notApi

\* POST /play_sound
ApiPlaySound ==
    /\ app_state' = [app_state EXCEPT !.sound_play_requested = TRUE]
    /\ api_last' = << [ req    |-> [path |-> "/play_sound"],
                        before |-> app_state,
                        resp   |-> [status |-> "requested"] ] >>
    /\ UNCHANGED notApi

\* GET /finger_count
ApiFingerCount ==
    /\ api_last' = << [ req    |-> [path |-> "/finger_count"],
                        before |-> app_state,
                        resp   |-> [finger_count |-> app_state.finger_count] ] >>
    /\ UNCHANGED <<app_state, notApi>>

\* AppState.set_finger_count, called by some other task
SetFingerCount ==
    /\ \E c \in 0..MaxFingerCount :
          app_state' = [app_state EXCEPT !.finger_count = c]
    /\ api_last' = <<>>
    /\ UNCHANGED notApi

\* AppState.set_hands_data, called by some other task
SetHandsData ==
    /\ \E h \in HandsData :
          app_state' = [app_state EXCEPT !.hands_data = h]
    /\ api_last' = <<>>
    /\ UNCHANGED notApi

\* AppState.clear_sound_play_request, called by some other task
ClearSoundPlayRequest ==
    /\ app_state' = [app_state EXCEPT !.sound_play_requested = FALSE]
    /\ api_last' = <<>>
    /\ UNCHANGED notApi

\* AppState.get_robot_control_command, called by some other task: read and clear
GetRobotControlCommand ==
    /\ app_state' = [app_state EXCEPT !.robot_control_command = None]
    /\ api_last' = <<>>
    /\ UNCHANGED notApi

----------------------------------------------------------------------------
(* api/websocket/connection_manager.py: ConnectionManager, with the /ws      *)
(* endpoint of api/endpoints.py connecting and disconnecting websockets      *)

Conns == 1..MaxConns

Range(seq) == { seq[k] : k \in 1..Len(seq) }

notWs == <<pidVars, selVars, config, trackerVars, poseVars, antVars, ctlVars,
           apiVars, visVars, lockVars, lateVars>>

ConnectionManagerInit ==
    /\ active_connections = <<>>
    /\ ws_state = [c \in Conns |-> "new"]
    /\ bc_pc = "idle"
    /\ bc_connections = <<>>
    /\ bc_i = 1
    /\ bc_disconnected = <<>>
    /\ bc_sent = {}
    /\ bc_removed = {}
    /\ bc_n = 0
    /\ ws_gone = {}
    /\ ws_wire = [c \in Conns |-> <<>>]

bcVars == <<bc_pc, bc_connections, bc_i, bc_disconnected, bc_sent, bc_removed, bc_n>>

\* list.remove(conn) guarded by "if conn in list", for each conn of removed
RemoveEach(connections, removed) ==
    SelectSeq(connections, LAMBDA c : c \notin Range(removed))

\* connect: await websocket.accept()
WsAccept ==
    /\ \E c \in Conns :
          /\ ws_state[c] = "new"
          /\ ws_state' = [ws_state EXCEPT ![c] = "accepted"]
    /\ UNCHANGED <<active_connections, bcVars, ws_gone, ws_wire, notWs>>

\* the peer of a connected websocket goes away
PeerGone ==
    /\ \E c \in Conns :
          /\ ws_state[c] \in {"accepted", "open"}
          /\ c \notin ws_gone
          /\ ws_gone' = ws_gone \cup {c}
    /\ UNCHANGED <<active_connections, ws_state, bcVars, ws_wire, notWs>>

\* an endpoint that registers the websocket and sends the snapshot later
SendSnapshotLater(wire, c) == wire

\* websocket_endpoint: await websocket.send_json({"type": "finger_count", ...})
\* right after connect has returned
SendSnapshot(wire, c) == [wire EXCEPT ![c] = Append(@, "snapshot")]

\* connect: with self._lock: self.active_connections.append(websocket); the
\* endpoint goes on, without suspending in between, to send the snapshot,
\* which raises if the peer has gone
WsRegister ==
    /\ \E c \in Conns :
          /\ ws_state[c] = "accepted"
          /\ cm_lock = "free"
          /\ active_connections' = Append(active_connections, c)
          /\ IF c \in ws_gone
             THEN /\ ws_state' = [ws_state EXCEPT ![c] = "failed"]
                  /\ UNCHANGED ws_wire
             ELSE /\ ws_state' = [ws_state EXCEPT ![c] = "open"]
                  /\ ws_wire' = SendSnapshot(ws_wire, c)
    /\ UNCHANGED <<bcVars, ws_gone, notWs>>

\* the /ws endpoint catches an exception and calls disconnect(websocket)
WsDisconnect ==
    /\ \E c \in Conns :
          /\ ws_state[c] \in {"open", "failed"}
          /\ cm_lock = "free"
          /\ ws_state' = [ws_state EXCEPT ![c] = "closed"]
          /\ active_connections' = RemoveEach(active_connections, << c >>)
    /\ UNCHANGED <<bcVars, ws_gone, ws_wire, notWs>>

\* broadcast: with self._lock: connections = self.active_connections.copy()
BcStart ==
    /\ bc_pc \in {"idle", "done"}
    /\ bc_n < MaxBroadcasts
    /\ cm_lock = "free"
    /\ bc_n' = bc_n + 1
    /\ bc_connections' = active_connections
    /\ bc_i' = 1
    /\ bc_disconnected' = <<>>
    /\ bc_sent' = {}
    /\ bc_removed' = {}
    /\ bc_pc' = "send"
    /\ UNCHANGED <<active_connections, ws_state, ws_gone, ws_wire, notWs>>

\* a loop that gives up at the first failing send
BcSendStopsAtFailure(ok) ==
    /\ bc_i' = IF ok THEN bc_i + 1 ELSE Len(bc_connections) + 1
    /\ IF ok
       THEN /\ bc_sent' = bc_sent \cup { bc_connections[bc_i] }
            /\ ws_wire' = [ws_wire EXCEPT ![bc_connections[bc_i]] = Append(@, "broadcast")]
            /\ UNCHANGED bc_disconnected
       ELSE /\ bc_disconnected' = Append(bc_disconnected, bc_connections[bc_i])
            /\ UNCHANGED <<bc_sent, ws_wire>>

\* one pass of the for loop: await connection.send_json(message) returns
\* (ok) or raises, and a raise appends the connection to disconnected
BcSendOne(ok) ==
    /\ bc_i' = bc_i + 1
    /\ IF ok
       THEN /\ bc_sent' = bc_sent \cup { bc_connections[bc_i] }
            /\ ws_wire' = [ws_wire EXCEPT ![bc_connections[bc_i]] = Append(@, "broadcast")]
            /\ UNCHANGED bc_disconnected
       ELSE /\ bc_disconnected' = Append(bc_disconnected, bc_connections[bc_i])
            /\ UNCHANGED <<bc_sent, ws_wire>>

\* the send raises exactly when the peer has gone
BcSend ==
    /\ bc_pc = "send"
    /\ bc_i <= Len(bc_connections)
    /\ BcSendOne(bc_connections[bc_i] \notin ws_gone)
    /\ UNCHANGED <<bc_pc, bc_connections, bc_removed, bc_n, active_connections,
                   ws_state, ws_gone, notWs>>

\* the loop is over: if disconnected: with self._lock: remove each one
\* that is still registered; then broadcast returns
\* a cleanup that stores the snapshot without the failed connections
BcCleanupStoresSnapshot ==
    /\ bc_pc = "send"
    /\ bc_i > Len(bc_connections)
    /\ bc_disconnected # <<>> => cm_lock = "free"
    /\ active_connections' =
          IF bc_disconnected # <<>>
          THEN SelectSeq(bc_connections, LAMBDA c : c \notin Range(bc_disconnected))
          ELSE active_connections
    /\ bc_removed' = Range(active_connections) \ Range(active_connections')
    /\ bc_pc' = "done"
    /\ UNCHANGED <<bc_connections, bc_i, bc_disconnected, bc_sent, bc_n,
                   ws_state, ws_gone, ws_wire, notWs>>

BcCleanup ==
    /\ bc_pc = "send"
    /\ bc_i > Len(bc_connections)
    /\ bc_disconnected # <<>> => cm_lock = "free"
    /\ active_connections' =
          IF bc_disconnected # <<>>
          THEN RemoveEach(active_connections, bc_disconnected)
          ELSE active_connections
    /\ bc_removed' = Range(active_connections) \ Range(active_connections')
    /\ bc_pc' = "done"
    /\ UNCHANGED <<bc_connections, bc_i, bc_disconnected, bc_sent, bc_n,
                   ws_state, ws_gone, ws_wire, notWs>>

----------------------------------------------------------------------------
(* vision/video_processor.py: VideoProcessor._process_loop, run by the      *)
(* vision thread, with on_dev_frame = None.  The values passed through to   *)
(* the callbacks (finger count, hands data, tracking result) do not steer   *)
(* the loop; the callbacks are recorded by kind and iteration.              *)

notVision == <<pidVars, selVars, config, poseVars, antVars, ctlVars, apiVars,
               wsVars, lockVars, lateVars>>

VideoProcessorInit ==
    /\ vis_pc = "init_camera"
    /\ vis_stop = FALSE
    /\ vis_init_failed = FALSE
    /\ vis_iter = 0
    /\ vis_events = <<>>
    /\ vis_snap = <<>>
    /\ vis_caught = <<>>
    /\ cb_log = <<>>
    /\ vis_stop_at = <<>>
    /\ vis_proc = Zero
    /\ vis_slept = Zero

\* the detections and frame intervals the vision loop is driven with
VisionFaceLists == { <<>>, << DetectedFace(Rat(3, 4), Rat(1, 2), Rat(1, 2), Rat(1, 4), Rat(9, 10)) >> }

VisionDts == { Rat(1, 2), Rat(1, 1) }

VisionConfigs == { [SoftConfig EXCEPT !.lost_threshold = 2] }

TrackerState == <<pid_yaw, pid_pitch, lost_frames>>

\* what only the loop test, the pacing sleep and stop() write
paceVars == <<vis_stop_at, vis_proc, vis_slept>>

\* frame_delay = 1.0 / self.config.TARGET_FPS
FrameDelay == Rat(1, config.target_fps)

\* times an iteration may take from its frame read to its pacing sleep
ProcTimes == { Rat(1, 100), Rat(1, 5) }

\* an initialisation failure that lets the thread go on into the loop
AfterInitFailureGoesOn == "top"

\* except Exception around the three constructors: print, return
AfterInitFailure == "returned"

\* a guard that ends the loop
AfterCaughtReturns == "returned"

\* except Exception inside the while body: print, time.sleep(0.1), loop again
AfterCaught == "backoff"

\* a failed read that falls through to detection
AfterFailedReadFallsThrough == "hands"

\* if not success or frame is None: print, time.sleep(0.1), continue
AfterFailedRead == "backoff"

\* detect_hands returned and the finger-count callback is left out
AfterHandsSkipsCallback == "faces"

\* detect_hands returned: next is self.on_finger_count_update(...)
AfterHands == "finger_cb"

\* one constructor of the try block at the head of _process_loop
VisConstruct(here, next) ==
    /\ vis_pc = here
    /\ \E ok \in BOOLEAN :
          IF ok
          THEN /\ vis_pc' = next
               /\ UNCHANGED vis_init_failed
          ELSE /\ vis_pc' = AfterInitFailure
               /\ vis_init_failed' = TRUE
    /\ UNCHANGED <<vis_stop, vis_iter, vis_events, vis_snap, vis_caught, cb_log,
                   trackerVars, paceVars, notVision>>

\* self.camera_handler = CameraHandler(self.config)
VisInitCamera == VisConstruct("init_camera", "init_hands")

\* self.hand_detector = HandDetector(self.config)
VisInitHands == VisConstruct("init_hands", "init_faces")

\* self.face_tracker = FaceTracker(self.config)
VisInitFaces == VisConstruct("init_faces", "opened")

\* if not self.camera_handler.is_opened(): print, return
VisCheckOpened ==
    /\ vis_pc = "opened"
    /\ \E ok \in BOOLEAN :
          IF ok
          THEN /\ vis_pc' = "top"
               /\ UNCHANGED vis_init_failed
          ELSE /\ vis_pc' = "returned"
               /\ vis_init_failed' = TRUE
    /\ UNCHANGED <<vis_stop, vis_iter, vis_events, vis_snap, vis_caught, cb_log,
                   trackerVars, paceVars, notVision>>

\* while not self.stop_event.is_set(): an iteration starts, or the loop ends
VisTop ==
    /\ vis_pc = "top"
    /\ IF vis_stop
       THEN /\ vis_pc' = "returned"
            /\ UNCHANGED <<vis_iter, vis_events, vis_snap>>
       ELSE /\ vis_iter < MaxIters
            /\ vis_iter' = vis_iter + 1
            /\ vis_events' = <<>>
            /\ vis_snap' = TrackerState
            /\ vis_pc' = "read"
    /\ vis_proc' = IF vis_stop THEN vis_proc ELSE Zero
    /\ vis_slept' = IF vis_stop THEN vis_slept ELSE Zero
    /\ UNCHANGED <<vis_stop, vis_init_failed, vis_caught, cb_log, trackerVars,
                   vis_stop_at, notVision>>

\* the guard of the while body catches an exception raised by source
Caught(source) ==
    /\ vis_events' = vis_events \o << source \o "_raised", "caught" >>
    /\ vis_caught' = Append(vis_caught, <<vis_iter, source>>)
    /\ vis_pc' = AfterCaught

\* success, frame = self.camera_handler.read_frame()
VisRead ==
    /\ vis_pc = "read"
    /\ \E ok \in BOOLEAN :
          IF ok
          THEN /\ vis_events' = Append(vis_events, "read")
               /\ vis_pc' = "hands"
          ELSE /\ vis_events' = Append(vis_events, "read_failed")
               /\ vis_pc' = AfterFailedRead
    /\ UNCHANGED <<vis_stop, vis_init_failed, vis_iter, vis_snap, vis_caught,
                   cb_log, trackerVars, paceVars, notVision>>

\* a backoff that retries the read without going through the loop test
VisBackoffRetries ==
    /\ vis_pc = "backoff"
    /\ vis_events' = << >>
    /\ vis_pc' = "read"
    /\ UNCHANGED <<vis_stop, vis_init_failed, vis_iter, vis_snap, vis_caught,
                   cb_log, trackerVars, paceVars, notVision>>

\* time.sleep(0.1) after a failed read or a caught exception
VisBackoff ==
    /\ vis_pc = "backoff"
    /\ vis_events' = Append(vis_events, "backoff")
    /\ vis_pc' = "top"
    /\ UNCHANGED <<vis_stop, vis_init_failed, vis_iter, vis_snap, vis_caught,
                   cb_log, trackerVars, paceVars, notVision>>

\* a hand detection step that gives up when the stop flag is set
VisHandsObservesStop ==
    /\ vis_pc = "hands"
    /\ IF vis_stop
       THEN /\ vis_pc' = "returned"
            /\ UNCHANGED <<vis_events, vis_caught>>
       ELSE \E ok \in BOOLEAN :
              IF ok
              THEN /\ vis_events' = Append(vis_events, "detect_hands")
                   /\ vis_pc' = AfterHands
                   /\ UNCHANGED vis_caught
              ELSE Caught("detect_hands")
    /\ UNCHANGED <<vis_stop, vis_init_failed, vis_iter, vis_snap, cb_log,
                   trackerVars, paceVars, notVision>>

\* self.hand_detector.detect_hands(frame, timestamp_ms)
VisHands ==
    /\ vis_pc = "hands"
    /\ \E ok \in BOOLEAN :
          IF ok
          THEN /\ vis_events' = Append(vis_events, "detect_hands")
               /\ vis_pc' = AfterHands
               /\ UNCHANGED vis_caught
          ELSE Caught("detect_hands")
    /\ UNCHANGED <<vis_stop, vis_init_failed, vis_iter, vis_snap, cb_log,
                   trackerVars, paceVars, notVision>>

\* self.on_finger_count_update(total_fingers, hands_data)
VisFingerCb ==
    /\ vis_pc = "finger_cb"
    /\ cb_log' = Append(cb_log, [kind |-> "finger_count", iter |-> vis_iter])
    /\ \E ok \in BOOLEAN :
          IF ok
          THEN /\ vis_events' = Append(vis_events, "finger_cb")
               /\ vis_pc' = "faces"
               /\ UNCHANGED vis_caught
          ELSE Caught("finger_cb")
    /\ UNCHANGED <<vis_stop, vis_init_failed, vis_iter, vis_snap, trackerVars,
                   paceVars, notVision>>

\* tracking_result = self.face_tracker.update(frame, timestamp_ms, dt): the
\* detector call at the head of update raises before any state is touched,
\* or update runs on the detections
VisFaces ==
    /\ vis_pc = "faces"
    /\ \/ /\ Caught("face_update")
          /\ UNCHANGED trackerVars
       \/ /\ \E faces \in VisionFaceLists, dt \in VisionDts :
                FaceTrackerUpdate(faces, dt)
          /\ vis_events' = Append(vis_events, "face_update")
          /\ vis_pc' = "tracking_cb"
          /\ UNCHANGED vis_caught
    /\ UNCHANGED <<vis_stop, vis_init_failed, vis_iter, vis_snap, cb_log,
                   paceVars, notVision>>

\* self.on_tracking_update(tracking_result)
VisTrackingCb ==
    /\ vis_pc = "tracking_cb"
    /\ cb_log' = Append(cb_log, [kind |-> "tracking", iter |-> vis_iter])
    /\ \E ok \in BOOLEAN :
          IF ok
          THEN /\ vis_events' = Append(vis_events, "tracking_cb")
               /\ vis_pc' = "sleep"
               /\ UNCHANGED vis_caught
          ELSE Caught("tracking_cb")
    /\ UNCHANGED <<vis_stop, vis_init_failed, vis_iter, vis_snap, trackerVars,
                   paceVars, notVision>>

\* time.sleep(frame_delay): the argument does not depend on the time taken
SleepDuration(proc) == FrameDelay

\* the optional on_dev_frame is None; then time.sleep(frame_delay)
VisSleep ==
    /\ vis_pc = "sleep"
    /\ \E proc \in ProcTimes :
          /\ vis_proc' = proc
          /\ vis_slept' = SleepDuration(proc)
    /\ vis_events' = Append(vis_events, "sleep")
    /\ vis_pc' = "top"
    /\ UNCHANGED <<vis_stop, vis_init_failed, vis_iter, vis_snap, vis_caught,
                   cb_log, trackerVars, vis_stop_at, notVision>>

\* VideoProcessor.stop: self.stop_event.set()
VisSetStop ==
    /\ ~vis_stop
    /\ vis_stop' = TRUE
    /\ vis_stop_at' = << [iter |-> vis_iter, pc |-> vis_pc] >>
    /\ UNCHANGED <<vis_pc, vis_init_failed, vis_iter, vis_events, vis_snap,
                   vis_caught, cb_log, vis_proc, vis_slept, trackerVars,
                   notVision>>

----------------------------------------------------------------------------
(* A stand-alone PIDController driven by arbitrary update and reset calls *)

Gains == { Rat(-1, 1), Rat(2, 1), Rat(30, 1) }

IGains == { Zero, Rat(1, 1) }

DGains == { Zero, Rat(1, 1) }

OutputLimits == { DefaultOutputLimit, Rat(30, 1) }

IntegralLimits == { DefaultIntegralLimit, Rat(1, 1) }

Errors == { Rat(-1, 2), Rat(-1, 4), Zero, Rat(1, 4), Rat(1, 2) }

PIDIdle ==
    /\ pid = PIDController(Zero, Zero, Zero, DefaultOutputLimit, DefaultIntegralLimit)
    /\ pid_out = Zero
    /\ pid_op = "new"
    /\ pid_prev_op = "new"
    /\ pid_err = Zero
    /\ pid_dt = Zero
    /\ pid_wiped = FALSE
    /\ pid_div = <<>>
    /\ pid_n = 0
    /\ pid_mirror = pid
    /\ pid_mirror_out = Zero

PIDInit ==
    /\ pid \in { PIDController(kp, ki, kd, ol, il) :
                    kp \in Gains, ki \in IGains, kd \in DGains,
                    ol \in OutputLimits, il \in IntegralLimits }
    /\ pid_out = Zero
    /\ pid_op = "new"
    /\ pid_prev_op = "new"
    /\ pid_err = Zero
    /\ pid_dt = Zero
    /\ pid_wiped = FALSE
    /\ pid_div = <<>>
    /\ pid_n = 0
    /\ pid_mirror = pid
    /\ pid_mirror_out = Zero

CallUpdate ==
    /\ \E error \in Errors, dt \in Dts :
          LET u == PIDUpdate(pid, error, dt) IN
          /\ pid' = u.pid
          /\ pid_out' = u.out
          /\ pid_err' = error
          /\ pid_dt' = dt
          /\ pid_div' = << u.dt >>
    /\ pid_op' = "update"
    /\ pid_prev_op' = pid_op
    /\ UNCHANGED <<pid_wiped, pid_n, pid_mirror, pid_mirror_out, selVars, config,
                   trackerVars, poseVars, extVars>>

CallReset ==
    /\ pid' = PIDReset(pid)
    /\ pid_op' = "reset"
    /\ pid_prev_op' = pid_op
    /\ pid_wiped' = (pid.integral # Zero \/ pid.prev_error # Zero)
    /\ UNCHANGED <<pid_out, pid_err, pid_dt, pid_div, pid_n, pid_mirror,
                   pid_mirror_out, selVars, config, trackerVars, poseVars, extVars>>

\* the dt values a caller may pass, the non-positive ones included
PairDts == { Rat(-1, 2), Zero, DtFloor, Rat(1, 2) }

PairErrors == { Rat(-1, 2), Zero, Rat(1, 4) }

\* one update of the pair: the first controller is given error, the second
\* the negated error, both the same dt
CallUpdatePair ==
    /\ pid_n < MaxPidCalls
    /\ \E error \in PairErrors, dt \in PairDts :
          LET u == PIDUpdate(pid, error, dt)
              v == PIDUpdate(pid_mirror, RNeg(error), dt) IN
          /\ pid' = u.pid
          /\ pid_out' = u.out
          /\ pid_mirror' = v.pid
          /\ pid_mirror_out' = v.out
          /\ pid_err' = error
          /\ pid_dt' = dt
          /\ pid_div' = << u.dt >>
    /\ pid_n' = pid_n + 1
    /\ pid_op' = "update"
    /\ pid_prev_op' = pid_op
    /\ UNCHANGED <<pid_wiped, selVars, config, trackerVars, poseVars, extVars>>

----------------------------------------------------------------------------
(* The two locks: AppState._lock and ConnectionManager._lock.  Every call  *)
(* of an accessor is split into taking the lock, the statements of the     *)
(* with block, and leaving it.  The vision thread, the control loop and    *)
(* the HTTP handlers are threads; the /ws endpoint and broadcast are       *)
(* coroutines of one event loop, which runs one of them at a time and      *)
(* switches only at an await.                                              *)

Tasks == { "vision", "control", "http", "ws", "push" }

Loop == { "ws", "push" }

Fields == { "finger_count", "antennas_enabled", "sound_play_requested",
            "robot_control_command", "hands_data" }

\* where a coroutine is suspended in an await, or not running at all
AwaitPcs == { "ws_closed", "ws_accept", "ws_send", "ws_receive", "bc_idle", "bc_send" }

NoOp == [ name |-> None, field |-> None, kind |-> None, val |-> None ]

Getter(name, field) == [ name |-> name, field |-> field, kind |-> "get", val |-> None ]

Setter(name, field, val) == [ name |-> name, field |-> field, kind |-> "set", val |-> val ]

RegistryOp(kind) == [ name |-> kind, field |-> "active_connections", kind |-> kind, val |-> None ]

\* the commands the /robot_control endpoint passes on
LockDirections == { "up", "left" }

\* the accessors each task calls
Calls(t) ==
    CASE t = "vision" ->
             { Setter("set_finger_count", "finger_count", v) : v \in 0..MaxFingerCount }
             \cup { Setter("set_hands_data", "hands_data", h) : h \in HandsData }
      [] t = "control" ->
             { Getter("get_antennas_enabled", "antennas_enabled"),
               Getter("is_sound_play_requested", "sound_play_requested"),
               Setter("clear_sound_play_request", "sound_play_requested", FALSE),
               [ name |-> "get_robot_control_command", field |-> "robot_control_command",
                 kind |-> "take", val |-> None ],
               Getter("get_hands_data", "hands_data") }
      [] t = "http" ->
             { Setter("set_antennas_enabled", "antennas_enabled", e) : e \in BOOLEAN }
             \cup { Setter("set_robot_control_command", "robot_control_command", d) :
                      d \in LockDirections }
             \cup { Setter("request_sound_play", "sound_play_requested", TRUE),
                    Getter("get_finger_count", "finger_count") }
      [] t = "ws" -> { Getter("get_finger_count", "finger_count") }
      [] OTHER -> {}

LocksInit ==
    /\ as_lock = "free"
    /\ cm_lock = "free"
    /\ lk_running = "none"
    /\ lk_pc = [ t \in Tasks |-> CASE t = "ws" -> "ws_closed"
                                   [] t = "push" -> "bc_idle"
                                   [] OTHER -> "as_wait" ]
    /\ lk_op = [ t \in Tasks |-> NoOp ]
    /\ lk_ret = [ t \in Tasks |-> None ]
    /\ lk_snap = [ t \in Tasks |-> None ]
    /\ lk_committed = [ finger_count          |-> 0,
                        antennas_enabled      |-> TRUE,
                        sound_play_requested  |-> FALSE,
                        robot_control_command |-> None,
                        hands_data            |-> <<>> ]

notLocks == <<pidVars, selVars, config, trackerVars, poseVars, antVars, ctlVars,
              api_last, ws_state, bcVars, ws_gone, ws_wire, visVars, lateVars>>

\* a thread runs whenever it is scheduled; a coroutine only while the event
\* loop is running it
Runs(t) == t \in Loop => lk_running = t

\* the event loop after a step of t that ends at pc
LoopAfter(t, pc) == IF t \in Loop /\ pc \in AwaitPcs THEN "none" ELSE lk_running

\* an acquire that does not wait for the holder
LockAcquiredAlways(lock) == TRUE

\* threading.Lock.acquire returns only when nobody holds the lock
LockAcquired(lock) == lock = "free"

\* with self._lock: (AppState), entered by a task that calls an accessor
AsAcquire ==
    /\ \E t \in Tasks :
          /\ lk_pc[t] = "as_wait"
          /\ Runs(t)
          /\ LockAcquired(as_lock)
          /\ \E op \in Calls(t) : lk_op' = [lk_op EXCEPT ![t] = op]
          /\ as_lock' = t
          /\ lk_snap' = [lk_snap EXCEPT ![t] = app_state]
          /\ lk_pc' = [lk_pc EXCEPT ![t] = "as_body"]
    /\ UNCHANGED <<cm_lock, lk_running, lk_ret, lk_committed, app_state,
                   active_connections, notLocks>>

\* a get_robot_control_command that returns the command and leaves it pending
AfterReadLeavesPending(kind) == "as_release"

\* after the read: get_robot_control_command goes on to clear the field,
\* any other getter returns
AfterRead(kind) == IF kind = "take" THEN "as_clear" ELSE "as_release"

\* the first statement of the with block: the read of a getter, the write
\* of a setter, or command = self._state["robot_control_command"]
AsBody ==
    /\ \E t \in Tasks :
          /\ lk_pc[t] = "as_body"
          /\ Runs(t)
          /\ IF lk_op[t].kind = "set"
             THEN /\ app_state' = [app_state EXCEPT ![lk_op[t].field] = lk_op[t].val]
                  /\ UNCHANGED lk_ret
             ELSE /\ lk_ret' = [lk_ret EXCEPT ![t] = app_state[lk_op[t].field]]
                  /\ UNCHANGED app_state
          /\ lk_pc' = [lk_pc EXCEPT ![t] = IF lk_op[t].kind = "set"
                                            THEN "as_release"
                                            ELSE AfterRead(lk_op[t].kind)]
    /\ UNCHANGED <<as_lock, cm_lock, lk_running, lk_op, lk_snap, lk_committed,
                   active_connections, notLocks>>

\* get_robot_control_command: self._state["robot_control_command"] = None
AsClear ==
    /\ \E t \in Tasks :
          /\ lk_pc[t] = "as_clear"
          /\ Runs(t)
          /\ app_state' = [app_state EXCEPT ![lk_op[t].field] = None]
          /\ lk_pc' = [lk_pc EXCEPT ![t] = "as_release"]
    /\ UNCHANGED <<as_lock, cm_lock, lk_running, lk_op, lk_ret, lk_snap,
                   lk_committed, active_connections, notLocks>>

\* the end of the with block: the accessor returns; the /ws endpoint goes on
\* to await the send of the snapshot, a thread to its next call
AsRelease ==
    /\ \E t \in Tasks :
          /\ lk_pc[t] = "as_release"
          /\ Runs(t)
          /\ as_lock' = "free"
          /\ lk_committed' = [lk_committed EXCEPT ![lk_op[t].field] = app_state[lk_op[t].field]]
          /\ lk_pc' = [lk_pc EXCEPT ![t] = IF t = "ws" THEN "ws_send" ELSE "as_wait"]
          /\ lk_running' = LoopAfter(t, IF t = "ws" THEN "ws_send" ELSE "as_wait")
          /\ lk_op' = [lk_op EXCEPT ![t] = NoOp]
          /\ lk_ret' = [lk_ret EXCEPT ![t] = None]
          /\ lk_snap' = [lk_snap EXCEPT ![t] = None]
    /\ UNCHANGED <<cm_lock, app_state, active_connections, notLocks>>

\* a websocket arrives: its endpoint runs up to await websocket.accept()
LkWsStart ==
    /\ lk_pc["ws"] = "ws_closed"
    /\ lk_running = "none"
    /\ lk_pc' = [lk_pc EXCEPT !["ws"] = "ws_accept"]
    /\ UNCHANGED <<as_lock, cm_lock, lk_running, lk_op, lk_ret, lk_snap,
                   lk_committed, app_state, active_connections, notLocks>>

\* connect: accept has returned, the coroutine reaches with self._lock:
LkWsAccepted ==
    /\ lk_pc["ws"] = "ws_accept"
    /\ lk_running = "none"
    /\ lk_running' = "ws"
    /\ lk_op' = [lk_op EXCEPT !["ws"] = RegistryOp("append")]
    /\ lk_pc' = [lk_pc EXCEPT !["ws"] = "cm_wait"]
    /\ UNCHANGED <<as_lock, cm_lock, lk_ret, lk_snap, lk_committed, app_state,
                   active_connections, notLocks>>

\* the snapshot is sent: the endpoint awaits websocket.receive_text()
LkWsSnapshotSent ==
    /\ lk_pc["ws"] = "ws_send"
    /\ lk_running = "none"
    /\ lk_pc' = [lk_pc EXCEPT !["ws"] = "ws_receive"]
    /\ UNCHANGED <<as_lock, cm_lock, lk_running, lk_op, lk_ret, lk_snap,
                   lk_committed, app_state, active_connections, notLocks>>

\* the send or the receive raises: the endpoint calls disconnect
LkWsRaised ==
    /\ lk_pc["ws"] \in { "ws_send", "ws_receive" }
    /\ lk_running = "none"
    /\ lk_running' = "ws"
    /\ lk_op' = [lk_op EXCEPT !["ws"] = RegistryOp("remove")]
    /\ lk_pc' = [lk_pc EXCEPT !["ws"] = "cm_wait"]
    /\ UNCHANGED <<as_lock, cm_lock, lk_ret, lk_snap, lk_committed, app_state,
                   active_connections, notLocks>>

\* broadcast is called: the coroutine reaches its first with self._lock:
LkBcCall ==
    /\ lk_pc["push"] = "bc_idle"
    /\ lk_running = "none"
    /\ lk_running' = "push"
    /\ lk_op' = [lk_op EXCEPT !["push"] = RegistryOp("copy")]
    /\ lk_pc' = [lk_pc EXCEPT !["push"] = "cm_wait"]
    /\ UNCHANGED <<as_lock, cm_lock, lk_ret, lk_snap, lk_committed, app_state,
                   active_connections, notLocks>>

\* the sends are over: if disconnected: with self._lock:, else the call returns
LkBcSent ==
    /\ lk_pc["push"] = "bc_send"
    /\ lk_running = "none"
    /\ \E failed \in BOOLEAN :
          IF failed /\ lk_ret["push"] # <<>>
          THEN /\ lk_running' = "push"
               /\ lk_op' = [lk_op EXCEPT !["push"] = RegistryOp("cleanup")]
               /\ lk_pc' = [lk_pc EXCEPT !["push"] = "cm_wait"]
               /\ UNCHANGED lk_ret
          ELSE /\ lk_pc' = [lk_pc EXCEPT !["push"] = "bc_idle"]
               /\ lk_op' = [lk_op EXCEPT !["push"] = NoOp]
               /\ lk_ret' = [lk_ret EXCEPT !["push"] = None]
               /\ UNCHANGED lk_running
    /\ UNCHANGED <<as_lock, cm_lock, lk_snap, lk_committed, app_state,
                   active_connections, notLocks>>

\* with self._lock: (ConnectionManager)
CmAcquire ==
    /\ \E t \in Loop :
          /\ lk_pc[t] = "cm_wait"
          /\ Runs(t)
          /\ LockAcquired(cm_lock)
          /\ cm_lock' = t
          /\ lk_pc' = [lk_pc EXCEPT ![t] = "cm_body"]
    /\ UNCHANGED <<as_lock, lk_running, lk_op, lk_ret, lk_snap, lk_committed,
                   app_state, active_connections, notLocks>>

\* the statement of the with block: append, remove, copy, or the removal of
\* the connections whose send failed
CmBody ==
    /\ \E t \in Loop :
          /\ lk_pc[t] = "cm_body"
          /\ Runs(t)
          /\ CASE lk_op[t].kind = "append" ->
                    /\ active_connections' = Append(active_connections, 1)
                    /\ UNCHANGED lk_ret
               [] lk_op[t].kind = "remove" ->
                    /\ active_connections' = RemoveEach(active_connections, << 1 >>)
                    /\ UNCHANGED lk_ret
               [] lk_op[t].kind = "copy" ->
                    /\ lk_ret' = [lk_ret EXCEPT ![t] = active_connections]
                    /\ UNCHANGED active_connections
               [] OTHER ->
                    /\ active_connections' = RemoveEach(active_connections, lk_ret[t])
                    /\ UNCHANGED lk_ret
          /\ lk_pc' = [lk_pc EXCEPT ![t] = "cm_release"]
    /\ UNCHANGED <<as_lock, cm_lock, lk_running, lk_op, lk_snap, lk_committed,
                   app_state, notLocks>>

\* where the coroutine goes when the with block of the registry is over
AfterRegistry(kind) ==
    CASE kind = "append" -> "as_wait"
      [] kind = "remove" -> "ws_closed"
      [] kind = "copy" -> "bc_send"
      [] OTHER -> "bc_idle"

\* a broadcast that sends inside its first with block
CmReleaseAfterSends ==
    /\ \E t \in Loop :
          /\ lk_pc[t] = "cm_release"
          /\ Runs(t)
          /\ cm_lock' = IF lk_op[t].kind = "copy" THEN cm_lock ELSE "free"
          /\ lk_pc' = [lk_pc EXCEPT ![t] = AfterRegistry(lk_op[t].kind)]
          /\ lk_running' = LoopAfter(t, AfterRegistry(lk_op[t].kind))
          /\ lk_op' = [lk_op EXCEPT ![t] = NoOp]
          /\ lk_ret' = [lk_ret EXCEPT ![t] = IF lk_op[t].kind = "copy" THEN @ ELSE None]
    /\ UNCHANGED <<as_lock, lk_snap, lk_committed, app_state, active_connections,
                   notLocks>>

\* the end of the with block of the registry: connect returns to the
\* endpoint, which calls get_finger_count; disconnect ends the endpoint;
\* broadcast goes on to its sends, or returns
CmRelease ==
    /\ \E t \in Loop :
          /\ lk_pc[t] = "cm_release"
          /\ Runs(t)
          /\ cm_lock' = "free"
          /\ lk_pc' = [lk_pc EXCEPT ![t] = AfterRegistry(lk_op[t].kind)]
          /\ lk_running' = LoopAfter(t, AfterRegistry(lk_op[t].kind))
          /\ lk_op' = [lk_op EXCEPT ![t] = NoOp]
          /\ lk_ret' = [lk_ret EXCEPT ![t] = IF lk_op[t].kind = "copy" THEN @ ELSE None]
    /\ UNCHANGED <<as_lock, lk_snap, lk_committed, app_state, active_connections,
                   notLocks>>

----------------------------------------------------------------------------
(* VideoProcessor.start and stop, called by the one thread that owns the   *)
(* processor, while the vision thread runs _process_loop.                  *)

\* the owner has made no call; a processor whose loop is under way was started once
LifecycleInit ==
    /\ own_pc = "idle"
    /\ own_op = "none"
    /\ own_n = 0
    /\ own_joined = FALSE
    /\ vp_thread = IF vis_pc = "unstarted" THEN "none" ELSE "set"
    /\ vp_started = IF vis_pc = "unstarted" THEN 0 ELSE 1
    /\ vp_orphans = 0
    /\ cam_released = FALSE
    /\ hands_closed = FALSE
    /\ faces_closed = FALSE


\* VideoProcessor.__init__: self.thread = None, the stop event is clear
VideoProcessorNew ==
    /\ vis_pc = "unstarted"
    /\ vis_stop = FALSE
    /\ vis_init_failed = FALSE
    /\ vis_iter = 0
    /\ vis_events = <<>>
    /\ vis_snap = <<>>
    /\ vis_caught = <<>>
    /\ cb_log = <<>>
    /\ vis_stop_at = <<>>
    /\ vis_proc = Zero
    /\ vis_slept = Zero

notLifecycle == <<pidVars, selVars, config, trackerVars, poseVars, antVars,
                  ctlVars, apiVars, wsVars, lockVars, appVars, rcVars>>

\* the thread self.thread refers to is running _process_loop
ThreadAlive == vp_thread = "set" /\ vis_pc # "returned"

\* a start that never finds a thread running
AlreadyRunningNever == FALSE

\* start: self.thread is not None and self.thread.is_alive()
AlreadyRunning == vp_thread = "set" /\ vis_pc # "returned"

\* start: return if already running, else clear the stop event, create the
\* thread and start it
OwnerStart ==
    /\ own_pc = "idle"
    /\ own_n < MaxOwnerCalls
    /\ own_n' = own_n + 1
    /\ own_op' = "start"
    /\ IF AlreadyRunning
       THEN UNCHANGED <<vis_pc, vis_stop, vis_init_failed, vis_events, vp_thread,
                        vp_started, vp_orphans, cam_released, hands_closed,
                        faces_closed>>
       ELSE /\ vis_stop' = FALSE
            /\ vp_thread' = "set"
            /\ vp_started' = vp_started + 1
            /\ vp_orphans' = vp_orphans + (IF ThreadAlive THEN 1 ELSE 0)
            /\ vis_pc' = "init_camera"
            /\ vis_init_failed' = FALSE
            /\ vis_events' = <<>>
            /\ cam_released' = FALSE
            /\ hands_closed' = FALSE
            /\ faces_closed' = FALSE
    /\ UNCHANGED <<own_pc, own_joined, vis_iter, vis_snap, vis_caught, cb_log,
                   paceVars, trackerVars, notLifecycle>>

\* stop: return if self.thread is None, else self.stop_event.set()
OwnerStop ==
    /\ own_pc = "idle"
    /\ own_n < MaxOwnerCalls
    /\ own_n' = own_n + 1
    /\ own_op' = "stop"
    /\ IF vp_thread = "none"
       THEN UNCHANGED <<own_pc, vis_stop>>
       ELSE /\ vis_stop' = TRUE
            /\ own_pc' = "join"
    /\ UNCHANGED <<own_joined, vp_thread, vp_started, vp_orphans, cam_released,
                   hands_closed, faces_closed, vis_pc, vis_init_failed, vis_iter,
                   vis_events, vis_snap, vis_caught, cb_log, paceVars,
                   trackerVars, notLifecycle>>

\* self.thread.join(timeout=timeout) returns when the thread has ended, or
\* when the timeout has passed
OwnerJoin ==
    /\ own_pc = "join"
    /\ \E timed_out \in BOOLEAN : timed_out \/ vis_pc = "returned"
    /\ own_joined' = (vis_pc = "returned")
    /\ own_pc' = "release_camera"
    /\ UNCHANGED <<own_op, own_n, vp_thread, vp_started, vp_orphans, cam_released,
                   hands_closed, faces_closed, visVars, trackerVars, notLifecycle>>

\* if self.camera_handler: self.camera_handler.release()
OwnerReleaseCamera ==
    /\ own_pc = "release_camera"
    /\ cam_released' = TRUE
    /\ own_pc' = "close_hands"
    /\ UNCHANGED <<own_op, own_n, own_joined, vp_thread, vp_started, vp_orphans,
                   hands_closed, faces_closed, visVars, trackerVars, notLifecycle>>

\* if self.hand_detector: self.hand_detector.close()
OwnerCloseHands ==
    /\ own_pc = "close_hands"
    /\ hands_closed' = TRUE
    /\ own_pc' = "close_faces"
    /\ UNCHANGED <<own_op, own_n, own_joined, vp_thread, vp_started, vp_orphans,
                   cam_released, faces_closed, visVars, trackerVars, notLifecycle>>

\* if self.face_tracker: self.face_tracker.close(); stop returns
OwnerCloseFaces ==
    /\ own_pc = "close_faces"
    /\ faces_closed' = TRUE
    /\ own_pc' = "idle"
    /\ UNCHANGED <<own_op, own_n, own_joined, vp_thread, vp_started, vp_orphans,
                   cam_released, hands_closed, visVars, trackerVars, notLifecycle>>

----------------------------------------------------------------------------
(* The legacy application: src/src/application.py and                      *)
(* src/src/robot/robot_controller.py.  Times are in tenths of a second,    *)
(* the yaw in steps of 30 degrees (2*pi is 12 steps).                      *)

\* REACTION_DELAY 0.5 and REACTION_COOLDOWN 1.0 by default
DefaultAppConfig == [ reaction_delay |-> 5, reaction_cooldown |-> 10 ]

AppConfigs == { DefaultAppConfig, [ reaction_delay |-> 3, reaction_cooldown |-> 0 ] }

\* Application.__init__ with the configuration cfg
ApplicationNew(cfg) ==
    /\ app_config = cfg
    /\ last_finger_count = -1
    /\ finger_count_stable_time = 0
    /\ app_now = 0
    /\ app_frames = 0
    /\ app_frame_at = 0
    /\ app_fc = -1
    /\ app_prev_fc = -1
    /\ app_changed_at = 0
    /\ app_reacted = FALSE

ApplicationInit == ApplicationNew(DefaultAppConfig)

\* RobotController.__init__: connected = False, current_yaw = 0.0
RobotControllerNew ==
    /\ rc_connected = FALSE
    /\ current_yaw = 0
    /\ rc_n = 0
    /\ rc_last = <<>>

\* the components added last, each as constructed
LateInit == LifecycleInit /\ ApplicationInit /\ RobotControllerNew

notApplication == <<pidVars, selVars, config, trackerVars, poseVars, antVars,
                    ctlVars, apiVars, wsVars, visVars, lockVars, lifeVars, rcVars>>

notRobot == <<pidVars, selVars, config, trackerVars, poseVars, antVars,
              ctlVars, apiVars, wsVars, visVars, lockVars, lifeVars, appVars>>

\* the finger counts tracker.detect returns
AppCounts == { 0, 1 }

\* the time from one pass of the loop to the next
AppFrameTimes == { 2, 4 }

\* a stability check that does not restart the timer when the count changes
StabilityCheckKeepsTimer(finger_count, current_time) ==
    IF finger_count # last_finger_count
    THEN [ last |-> finger_count, stable |-> finger_count_stable_time, react |-> FALSE ]
    ELSE IF current_time - finger_count_stable_time >= app_config.reaction_delay
         THEN [ last |-> last_finger_count,
                stable |-> current_time + app_config.reaction_cooldown,
                react |-> TRUE ]
         ELSE [ last |-> last_finger_count, stable |-> finger_count_stable_time,
                react |-> FALSE ]

\* the robot reaction with stability check of Application.run
StabilityCheck(finger_count, current_time) ==
    IF finger_count # last_finger_count
    THEN [ last |-> finger_count, stable |-> current_time, react |-> FALSE ]
    ELSE IF current_time - finger_count_stable_time >= app_config.reaction_delay
         THEN [ last |-> last_finger_count,
                stable |-> current_time + app_config.reaction_cooldown,
                react |-> TRUE ]
         ELSE [ last |-> last_finger_count, stable |-> finger_count_stable_time,
                react |-> FALSE ]

\* one pass of the loop that reads a frame: detection (or the cached count
\* of a skipped detection), then the stability check
AppFrame ==
    /\ app_frames < MaxAppFrames
    /\ \E finger_count \in AppCounts, d \in AppFrameTimes :
          LET current_time == app_now + d
              c == StabilityCheck(finger_count, current_time) IN
          /\ app_now' = current_time
          /\ app_frame_at' = current_time
          /\ last_finger_count' = c.last
          /\ finger_count_stable_time' = c.stable
          /\ app_reacted' = c.react
          /\ app_prev_fc' = app_fc
          /\ app_fc' = finger_count
          /\ app_changed_at' = IF finger_count # app_fc THEN current_time
                                                        ELSE app_changed_at
    /\ app_frames' = app_frames + 1
    /\ UNCHANGED <<app_config, notApplication>>

\* a pass whose cap.read() fails: log and continue
AppReadFailed ==
    /\ app_frames < MaxAppFrames
    /\ \E d \in AppFrameTimes : app_now' = app_now + d
    /\ app_frames' = app_frames + 1
    /\ UNCHANGED <<app_config, last_finger_count, finger_count_stable_time,
                   app_frame_at, app_fc, app_prev_fc, app_changed_at, app_reacted,
                   notApplication>>

\* the directions move is called with: the six it knows and one it does not
MoveDirections == { "left", "right", "up", "down", "center", "reset", "forward" }

\* 2 * np.pi in steps of np.deg2rad(30)
TwoPi == 12

\* a turn to the right without the wrap-around
TurnRightNoWrap(yaw) == { yaw + 1 }

\* the yaw after direction "right": twelve float steps of deg2rad(30) need
\* not sum to exactly 2*pi, so at that sum the comparison may go either way
TurnRight(yaw) ==
    IF yaw + 1 > TwoPi THEN { yaw + 1 - TwoPi }
    ELSE IF yaw + 1 = TwoPi THEN { yaw + 1, yaw + 1 - TwoPi }
    ELSE { yaw + 1 }

\* the yaw after direction "left"
TurnLeft(yaw) ==
    IF yaw - 1 < -TwoPi THEN { yaw - 1 + TwoPi }
    ELSE IF yaw - 1 = -TwoPi THEN { yaw - 1, yaw - 1 + TwoPi }
    ELSE { yaw - 1 }

\* RobotController.move(direction); goto_target may raise, which move logs
RcMove ==
    /\ rc_n < MaxMoves
    /\ rc_n' = rc_n + 1
    /\ \E direction \in MoveDirections :
          IF ~rc_connected
          THEN /\ rc_last' = << [direction |-> direction, before |-> current_yaw,
                                 issued |-> FALSE] >>
               /\ UNCHANGED current_yaw
          ELSE /\ current_yaw' \in
                     CASE direction = "left" -> TurnLeft(current_yaw)
                       [] direction = "right" -> TurnRight(current_yaw)
                       [] direction \in { "center", "reset" } -> { 0 }
                       [] OTHER -> { current_yaw }
               /\ rc_last' = << [direction |-> direction, before |-> current_yaw,
                                 issued |-> direction \in { "left", "right", "up",
                                                            "down", "center", "reset" }] >>
    /\ UNCHANGED <<rc_connected, notRobot>>

----------------------------------------------------------------------------
(* Specifications *)

\* the face tracker processing frames
Init ==
    /\ config \in Configs
    /\ FaceTrackerInit
    /\ RobotControllerInit
    /\ AntennaIdle
    /\ ControlInit
    /\ AppStateInit
    /\ ConnectionManagerInit
    /\ VideoProcessorInit
    /\ LocksInit
    /\ LateInit
    /\ PIDIdle
    /\ SelectIdle

Next == Frame

Spec == Init /\ [][Next]_vars

\* the robot controller integrating corrections
InitPose ==
    /\ config \in PoseConfigs
    /\ FaceTrackerInit
    /\ RobotControllerInit
    /\ AntennaIdle
    /\ ControlInit
    /\ AppStateInit
    /\ ConnectionManagerInit
    /\ VideoProcessorInit
    /\ LocksInit
    /\ LateInit
    /\ PIDIdle
    /\ SelectIdle

NextPose == Tick \/ CalculateAntennaPositions

SpecPose == InitPose /\ [][NextPose]_vars

\* one PID controller under arbitrary calls
InitPID ==
    /\ config = DefaultConfig
    /\ FaceTrackerInit
    /\ RobotControllerInit
    /\ AntennaIdle
    /\ ControlInit
    /\ AppStateInit
    /\ ConnectionManagerInit
    /\ VideoProcessorInit
    /\ LocksInit
    /\ LateInit
    /\ PIDInit
    /\ SelectIdle

NextPID == CallUpdate \/ CallReset

SpecPID == InitPID /\ [][NextPID]_vars

\* two PID controllers with the same gains, fed opposite errors
NextPair == CallUpdatePair

SpecPair == InitPID /\ [][NextPair]_vars

\* the control loop of main.py and its HTTP handlers
InitControl ==
    /\ config = DefaultConfig
    /\ FaceTrackerInit
    /\ RobotControllerInit
    /\ AntennaIdle
    /\ ControlInit
    /\ AppStateInit
    /\ ConnectionManagerInit
    /\ VideoProcessorInit
    /\ LocksInit
    /\ LateInit
    /\ PIDIdle
    /\ SelectIdle

NextControl ==
    \/ PostAntennas
    \/ PostPlaySound
    \/ GetFingerCount
    \/ SetStop
    \/ CtlCheck
    \/ CtlRead
    \/ CtlPose
    \/ CtlJoin
    \/ VidOpenCamera
    \/ VidInitModel
    \/ VidTop
    \/ VidGrab
    \/ VidDetect
    \/ VidStore
    \/ VidCloseLandmarker
    \/ VidReleaseCap

SpecControl == InitControl /\ [][NextControl]_vars

\* the HTTP endpoints of api/endpoints.py over one AppState
InitApi ==
    /\ config = DefaultConfig
    /\ FaceTrackerInit
    /\ RobotControllerInit
    /\ AntennaIdle
    /\ ControlInit
    /\ AppStateInit
    /\ ConnectionManagerInit
    /\ VideoProcessorInit
    /\ LocksInit
    /\ LateInit
    /\ PIDIdle
    /\ SelectIdle

NextApi ==
    \/ ApiRobotControl
    \/ ApiAntennas
    \/ ApiPlaySound
    \/ ApiFingerCount
    \/ SetFingerCount
    \/ SetHandsData
    \/ ClearSoundPlayRequest
    \/ GetRobotControlCommand

SpecApi == InitApi /\ [][NextApi]_vars

\* the tasks calling the accessors of AppState and of the connection registry
InitLocks ==
    /\ config = DefaultConfig
    /\ FaceTrackerInit
    /\ RobotControllerInit
    /\ AntennaIdle
    /\ ControlInit
    /\ AppStateInit
    /\ ConnectionManagerInit
    /\ VideoProcessorInit
    /\ LocksInit
    /\ LateInit
    /\ PIDIdle
    /\ SelectIdle

NextLocks ==
    \/ AsAcquire
    \/ AsBody
    \/ AsClear
    \/ AsRelease
    \/ LkWsStart
    \/ LkWsAccepted
    \/ LkWsSnapshotSent
    \/ LkWsRaised
    \/ LkBcCall
    \/ LkBcSent
    \/ CmAcquire
    \/ CmBody
    \/ CmRelease

SpecLocks == InitLocks /\ [][NextLocks]_vars

\* broadcasts of one ConnectionManager while websockets connect and disconnect
InitBroadcast ==
    /\ config = DefaultConfig
    /\ FaceTrackerInit
    /\ RobotControllerInit
    /\ AntennaIdle
    /\ ControlInit
    /\ AppStateInit
    /\ ConnectionManagerInit
    /\ VideoProcessorInit
    /\ LocksInit
    /\ LateInit
    /\ PIDIdle
    /\ SelectIdle

NextBroadcast ==
    \/ WsAccept
    \/ WsRegister
    \/ WsDisconnect
    \/ PeerGone
    \/ BcStart
    \/ BcSend
    \/ BcCleanup

SpecBroadcast == InitBroadcast /\ [][NextBroadcast]_vars

\* the vision thread of one VideoProcessor
InitVision ==
    /\ config \in VisionConfigs
    /\ FaceTrackerInit
    /\ RobotControllerInit
    /\ AntennaIdle
    /\ ControlInit
    /\ AppStateInit
    /\ ConnectionManagerInit
    /\ VideoProcessorInit
    /\ LocksInit
    /\ LateInit
    /\ PIDIdle
    /\ SelectIdle

NextVision ==
    \/ VisInitCamera
    \/ VisInitHands
    \/ VisInitFaces
    \/ VisCheckOpened
    \/ VisTop
    \/ VisRead
    \/ VisBackoff
    \/ VisHands
    \/ VisFingerCb
    \/ VisFaces
    \/ VisTrackingCb
    \/ VisSleep
    \/ VisSetStop

SpecVision == InitVision /\ [][NextVision]_vars

\* the steps of the vision thread itself
VisionThread ==
    \/ VisInitCamera
    \/ VisInitHands
    \/ VisInitFaces
    \/ VisCheckOpened
    \/ VisTop
    \/ VisRead
    \/ VisBackoff
    \/ VisHands
    \/ VisFingerCb
    \/ VisFaces
    \/ VisTrackingCb
    \/ VisSleep

\* a VideoProcessor, its owner calling start and stop, and its vision thread
InitLifecycle ==
    /\ config \in VisionConfigs
    /\ FaceTrackerInit
    /\ RobotControllerInit
    /\ AntennaIdle
    /\ ControlInit
    /\ AppStateInit
    /\ ConnectionManagerInit
    /\ VideoProcessorNew
    /\ LocksInit
    /\ LateInit
    /\ PIDIdle
    /\ SelectIdle

NextLifecycle ==
    \/ OwnerStart
    \/ OwnerStop
    \/ OwnerJoin
    \/ OwnerReleaseCamera
    \/ OwnerCloseHands
    \/ OwnerCloseFaces
    \/ VisionThread

SpecLifecycle == InitLifecycle /\ [][NextLifecycle]_vars

\* the loop of the legacy Application
InitApplication ==
    /\ config = DefaultConfig
    /\ FaceTrackerInit
    /\ RobotControllerInit
    /\ AntennaIdle
    /\ ControlInit
    /\ AppStateInit
    /\ ConnectionManagerInit
    /\ VideoProcessorInit
    /\ LocksInit
    /\ LifecycleInit
    /\ \E cfg \in AppConfigs : ApplicationNew(cfg)
    /\ RobotControllerNew
    /\ PIDIdle
    /\ SelectIdle

NextApplication == AppFrame \/ AppReadFailed

SpecApplication == InitApplication /\ [][NextApplication]_vars

\* the legacy RobotController after __enter__, connected or not
InitRobot ==
    /\ config = DefaultConfig
    /\ FaceTrackerInit
    /\ RobotControllerInit
    /\ AntennaIdle
    /\ ControlInit
    /\ AppStateInit
    /\ ConnectionManagerInit
    /\ VideoProcessorInit
    /\ LocksInit
    /\ LifecycleInit
    /\ ApplicationInit
    /\ rc_connected \in BOOLEAN
    /\ current_yaw = 0
    /\ rc_n = 0
    /\ rc_last = <<>>
    /\ PIDIdle
    /\ SelectIdle

NextRobot == RcMove

SpecRobot == InitRobot /\ [][NextRobot]_vars

\* the vision thread is scheduled again and again and each of its calls returns
SpecVisionLive == SpecVision /\ WF_vars(VisionThread)

\* the tracker on frames whose face moves towards and across the centre
NextSign == SignFrame

SpecSign == Init /\ [][NextSign]_vars

\* target selection on one list of detections
InitSelect ==
    /\ config = DefaultConfig
    /\ FaceTrackerInit
    /\ RobotControllerInit
    /\ AntennaIdle
    /\ ControlInit
    /\ AppStateInit
    /\ ConnectionManagerInit
    /\ VideoProcessorInit
    /\ LocksInit
    /\ LateInit
    /\ PIDIdle
    /\ SelectInit

NextSelect == CallSelect

SpecSelect == InitSelect /\ [][NextSelect]_vars

\* the tracker fed the same face on every frame
ScenarioConfigs ==
    { DefaultConfig, SoftConfig, [SoftConfig EXCEPT !.ki_yaw = Zero] }

InitScenario ==
    /\ config \in ScenarioConfigs
    /\ FaceTrackerInit
    /\ RobotControllerInit
    /\ AntennaIdle
    /\ ControlInit
    /\ AppStateInit
    /\ ConnectionManagerInit
    /\ VideoProcessorInit
    /\ LocksInit
    /\ LateInit
    /\ PIDIdle
    /\ SelectIdle

NextScenario == ScenarioFrame

SpecScenario == InitScenario /\ [][NextScenario]_vars

----------------------------------------------------------------------------
(* Properties *)

InRange(x, lo, hi) == RLe(lo, x) /\ RLe(x, hi)

\* number of FALSE entries at the end of a frame log
RECURSIVE TrailingLost(_)
TrailingLost(log) ==
    IF log = <<>> \/ log[Len(log)] THEN 0
    ELSE 1 + TrailingLost(SubSeq(log, 1, Len(log) - 1))

PIDIsZero(p) == p.integral = Zero /\ p.prev_error = Zero

\* C1: whatever the calls made on a PID controller (dt > 0), the output it
\* returns lies within -output_limit..output_limit and its integral within
\* -integral_limit..integral_limit.
C1_PIDBounded ==
    /\ InRange(pid_out, RNeg(pid.output_limit), pid.output_limit)
    /\ InRange(pid.integral, RNeg(pid.integral_limit), pid.integral_limit)

\* an update whose raw accumulation and raw output both exceeded the limits
C1_Witness ==
    /\ pid_op = "update"
    /\ RLt(Zero, pid_dt)
    /\ pid.integral = pid.integral_limit
    /\ pid_out = pid.output_limit
    /\ RLt(pid.output_limit, RMul(pid.kp, pid_err))
    /\ pid.ki = Zero /\ pid.kd = Zero
    /\ pid.kp = Rat(30, 1)

\* C2 as stated: after any call of calculate_head_pose the yaw lies within
\* -yaw_amplitude..yaw_amplitude and the pitch within pitch_min..pitch_max,
\* whatever the configured bounds.
C2_AlwaysWithinBounds ==
    ticks > 0 =>
        /\ InRange(current_yaw_deg, RNeg(config.yaw_amplitude), config.yaw_amplitude)
        /\ InRange(current_pitch_deg, config.pitch_min, config.pitch_max)

NeutralWithinBounds ==
    /\ RLe(Zero, config.yaw_amplitude)
    /\ InRange(Zero, config.pitch_min, config.pitch_max)

\* C2 amended: when the neutral pose lies within the configured bounds, the
\* yaw and the pitch lie within them after every call of calculate_head_pose.
C2_WithinBoundsFromNeutral ==
    (ticks > 0 /\ NeutralWithinBounds) =>
        /\ InRange(current_yaw_deg, RNeg(config.yaw_amplitude), config.yaw_amplitude)
        /\ InRange(current_pitch_deg, config.pitch_min, config.pitch_max)

\* a tracked tick whose sums left the range on both axes and were clamped
C2_Witness ==
    /\ NeutralWithinBounds
    /\ pose_arg # <<>>
    /\ pose_arg[1].tracking
    /\ RLt(RAdd(pose_prev[1], pose_arg[1].yaw_correction_deg),
           RNeg(config.yaw_amplitude))
    /\ RLt(RAdd(pose_prev[2], pose_arg[1].pitch_correction_deg), config.pitch_min)
    /\ current_yaw_deg = RNeg(config.yaw_amplitude)
    /\ current_pitch_deg = config.pitch_min

\* C3: the result of a frame has tracking = TRUE exactly when a target was
\* selected on that frame, and a result with tracking = FALSE carries zero
\* yaw and pitch corrections.
C3_TrackingIffTarget ==
    frame_log # <<>> =>
        /\ result.tracking = frame_log[Len(frame_log)]
        /\ result.tracking = (result.target # 0)
        /\ result.tracking = (result.faces # <<>>)
        /\ ~result.tracking =>
              /\ result.yaw_correction_deg = Zero
              /\ result.pitch_correction_deg = Zero

\* a lost frame right after a tracked one that was off centre
C3_Witness ==
    /\ Len(frame_log) >= 2
    /\ frame_log[Len(frame_log) - 1]
    /\ ~result.tracking
    /\ pid_yaw.prev_error # Zero
    /\ pid_pitch.prev_error # Zero

\* C4: the lost-frame counter equals the number of consecutive frames
\* without a target that end at the current frame (0 after a frame with a
\* target, one more after each frame without).
C4_LostCounter == lost_frames = TrailingLost(frame_log)

\* lost, found, lost
C4_Witness ==
    /\ frame_log = <<FALSE, TRUE, FALSE>>
    /\ lost_frames = 1

\* C5: once lost_threshold or more consecutive frames without a target have
\* been processed, both PID controllers have integral 0 and previous error 0.
C5_ZeroAfterThreshold ==
    (config.lost_threshold >= 1 /\ TrailingLost(frame_log) >= config.lost_threshold) =>
        PIDIsZero(pid_yaw) /\ PIDIsZero(pid_pitch)

\* a tracked frame followed by as many lost frames as the threshold
C5_Witness ==
    /\ frame_log # <<>>
    /\ frame_log[1]
    /\ config.lost_threshold >= 2
    /\ TrailingLost(frame_log) = config.lost_threshold
    /\ config.ki_yaw # Zero

\* C6: a frame without a target whose run of lost frames is shorter than
\* lost_threshold calls no PID method and leaves both controllers as they
\* were; a frame with a target calls update only; reset is called only on a
\* frame that completes a run of at least lost_threshold lost frames.
C6_ResetOnlyAtThreshold ==
    [][ LET n    == Len(frame_log')
            lost == TrailingLost(frame_log')
        IN  /\ (lost >= 1 /\ lost < config.lost_threshold) =>
                  /\ pid_calls' = <<>>
                  /\ pid_yaw' = pid_yaw
                  /\ pid_pitch' = pid_pitch
            /\ frame_log'[n] => pid_calls' = <<"yaw.update", "pitch.update">>
            /\ pid_calls' = <<"yaw.reset", "pitch.reset">> =>
                  lost >= config.lost_threshold
      ]_vars

\* a lost frame below the threshold that kept a non-zero PID state
C6_Witness ==
    /\ frame_log # <<>>
    /\ TrailingLost(frame_log) >= 1
    /\ TrailingLost(frame_log) < config.lost_threshold
    /\ pid_calls = <<>>
    /\ pid_yaw.integral # Zero
    /\ pid_yaw.prev_error # Zero

KpTerm == RMul(pid.kp, pid_err)

KiTerm ==
    RMul(pid.ki, NpClip(RMul(pid_err, pid_dt),
                        RNeg(pid.integral_limit), pid.integral_limit))

KdTerm == RMul(pid.kd, RDiv(pid_err, pid_dt))

\* C7 as stated: the first update after a reset returns kp*error clamped to
\* the output limit.
C7_FirstIsProportional ==
    (pid_op = "update" /\ pid_prev_op = "reset") =>
        pid_out = NpClip(KpTerm, RNeg(pid.output_limit), pid.output_limit)

\* C7 amended: the first update after a reset returns
\* kp*error + ki*clamp(error*dt) + kd*error/dt clamped to the output limit,
\* whatever the state before the reset.
C7_FirstIsFreshUpdate ==
    (pid_op = "update" /\ pid_prev_op = "reset") =>
        pid_out = NpClip(RAdd(RAdd(KpTerm, KiTerm), KdTerm),
                         RNeg(pid.output_limit), pid.output_limit)

\* an unsaturated first update after a reset that discarded a non-zero state
C7_Witness ==
    /\ pid_op = "update"
    /\ pid_prev_op = "reset"
    /\ pid_wiped
    /\ pid_err # Zero
    /\ pid.ki # Zero
    /\ pid.kd # Zero
    /\ RLt(pid_out, pid.output_limit)
    /\ RLt(RNeg(pid.output_limit), pid_out)

\* C8: a call of calculate_head_pose with None or with a result whose
\* tracking is FALSE leaves yaw and pitch as they were before the call.
C8_HoldWhenNotTracking ==
    (ticks > 0 /\ (pose_arg = <<>> \/ ~pose_arg[1].tracking)) =>
        <<current_yaw_deg, current_pitch_deg>> = pose_prev

\* a non-neutral pose held across a not-tracking result with corrections
C8_Witness ==
    /\ pose_arg # <<>>
    /\ ~pose_arg[1].tracking
    /\ pose_arg[1].yaw_correction_deg # Zero
    /\ pose_arg[1].pitch_correction_deg # Zero
    /\ current_yaw_deg # Zero
    /\ current_pitch_deg # Zero
    /\ RLt(RNeg(config.yaw_amplitude), current_yaw_deg)
    /\ RLt(current_yaw_deg, config.yaw_amplitude)

\* C9: for an empty list no target is selected; otherwise the selected face
\* has the largest area of the list and every face before it has a strictly
\* smaller area.
C9_FirstMaxArea ==
    sel_done =>
        IF sel_faces = <<>> THEN sel_target = 0
        ELSE /\ sel_target \in 1..Len(sel_faces)
             /\ \A j \in 1..Len(sel_faces) :
                   RLe(Area(sel_faces[j]), Area(sel_faces[sel_target]))
             /\ \A j \in 1..(sel_target - 1) :
                   RLt(Area(sel_faces[j]), Area(sel_faces[sel_target]))

\* areas 1/50, 1/20, 1/20, 1/100: the first of the two largest is selected
C9_Witness ==
    /\ sel_done
    /\ Len(sel_faces) = 4
    /\ Area(sel_faces[1]) = Rat(1, 50)
    /\ Area(sel_faces[2]) = Rat(1, 20)
    /\ Area(sel_faces[3]) = Rat(1, 20)
    /\ Area(sel_faces[4]) = Rat(1, 100)
    /\ sel_faces[2] # sel_faces[3]
    /\ sel_target = 2

ClampYaw(x) == NpClip(x, RNeg(config.yaw_amplitude), config.yaw_amplitude)

\* C10: with ki_yaw = 0 and the same face on every frame, the first frame's
\* yaw correction is -clamp(kp*dx + kd*dx/dt) and every later one is
\* -clamp(kp*dx); a face at y_center = 1/2 gives pitch correction 0 on every
\* frame.  With kp 30, kd 5, limit 30, x_center 0.7 and dt 0.033 these are
\* -30 on the first frame and -6 afterwards.
C10_ConstantTarget ==
    frame_log # <<>> =>
        LET f  == result.faces[1]
            dx == RSub(f.x_center, Half)
            n  == Len(frame_log)
        IN  /\ (config.ki_yaw = Zero /\ n = 1) =>
                  result.yaw_correction_deg =
                    RNeg(ClampYaw(RAdd(RMul(config.kp_yaw, dx),
                                       RMul(config.kd_yaw, RDiv(dx, frame_dt)))))
            /\ (config.ki_yaw = Zero /\ n > 1) =>
                  result.yaw_correction_deg = RNeg(ClampYaw(RMul(config.kp_yaw, dx)))
            /\ f.y_center = Half => result.pitch_correction_deg = Zero
            /\ (config = DefaultConfig /\ f.x_center = Rat(7, 10)
                   /\ frame_dt = Rat(33, 1000)) =>
                  result.yaw_correction_deg =
                    IF n = 1 THEN Rat(-30, 1) ELSE Rat(-6, 1)

\* the thirtieth frame of the scenario with the default gains
C10_Witness ==
    /\ Len(frame_log) = 30
    /\ config = DefaultConfig
    /\ result.faces[1].x_center = Rat(7, 10)
    /\ result.faces[1].y_center = Half
    /\ frame_dt = Rat(33, 1000)
    /\ result.yaw_correction_deg = Rat(-6, 1)
    /\ result.pitch_correction_deg = Zero

\* C11: calculate_antenna_positions called with enabled = FALSE returns
\* (0, 0) whatever the elapsed time and the pose, and no call of it changes
\* the yaw or the pitch of the controller.
C11_DisabledAntennasZero ==
    [][ /\ (ant_arg' # <<>> /\ ~ant_arg'[1].enabled) => ant_out' = <<Zero, Zero>>
        /\ (antVars' # antVars) =>
              /\ UNCHANGED <<current_yaw_deg, current_pitch_deg>>
              /\ UNCHANGED <<pose_arg, pose_prev, ticks, config>>
      ]_vars

\* a disabled call at a time when the enabled oscillation is not at zero,
\* made on a controller that has left the neutral pose
C11_Witness ==
    /\ ant_arg # <<>>
    /\ ~ant_arg[1].enabled
    /\ AntennaPositions(ant_arg[1].elapsed_time, TRUE) # <<Zero, Zero>>
    /\ ant_out = <<Zero, Zero>>
    /\ current_yaw_deg # Zero
    /\ current_pitch_deg # Zero

\* a control tick has ended: in run() a started tick ends only where the read
\* of config.HEAD_PITCH_SCALE raises
TickOver == ctl_pc = "raised"

\* C12: a control tick that started after POST /antennas {enabled: false}
\* completed, with no POST /antennas {enabled: true} since, has commanded the
\* antenna angles (0, 0) by the time it is over
C12_NextTickCommandsZero ==
    (TickOver /\ ~ctl_tick_enabled /\ ~ctl_on_seen) =>
        /\ ctl_cmds # <<>>
        /\ ctl_cmds[Len(ctl_cmds)] = <<Zero, Zero>>

\* C13: one POST /play_sound causes at most one play, and while a request is
\* pending and stop is not set the control loop is still running its ticks,
\* so that a following tick plays the sound and clears the flag
C13_RequestIsPlayedOnce ==
    /\ ctl_plays <= snd_requests
    /\ (sound_play_requested /\ ~ctl_stop) => ctl_pc \in {"check", "read", "pose"}

\* C17: an exception raised during a control tick ends that tick only: the
\* control loop is left only once the stop flag is set
C17_LoopEndsOnlyOnStop ==
    ctl_pc \in {"raised", "join", "returned"} => ctl_stop

\* C14: POST /robot_control with a direction in {up, down, left, right}
\* stores it as the pending command, changes no other field and answers
\* status ok with the direction; with any other direction it answers status
\* error and leaves every field of the shared state unchanged
C14_RobotControlValidated ==
    (api_last # <<>> /\ api_last[1].req.path = "/robot_control") =>
        LET d == api_last[1].req.direction
            before == api_last[1].before
            resp == api_last[1].resp
        IN  IF d \in {"up", "down", "left", "right"}
            THEN /\ app_state = [before EXCEPT !.robot_control_command = d]
                 /\ resp = [status |-> "ok", direction |-> d]
            ELSE /\ app_state = before
                 /\ resp.status = "error"

C14_Witness ==
    /\ api_last # <<>>
    /\ api_last[1].req.path = "/robot_control"
    /\ api_last[1].req.direction = "forward"
    /\ api_last[1].resp.status = "error"
    /\ app_state.robot_control_command = "left"
    /\ ~app_state.antennas_enabled
    /\ app_state.finger_count = 2

\* C15: when broadcast returns, every connection of its snapshot whose send
\* failed is out of the registry, every other connection of the snapshot has
\* been sent the message, and the call removed no connection it sent to
C15_BroadcastDropsOnlyFailed ==
    bc_pc = "done" =>
        /\ \A c \in Range(bc_connections) :
              IF c \in Range(bc_disconnected)
              THEN c \notin Range(active_connections)
              ELSE c \in bc_sent
        /\ bc_removed \cap bc_sent = {}
        /\ bc_removed \subseteq Range(bc_disconnected)

C15_Witness ==
    /\ bc_pc = "done"
    /\ bc_connections = <<1, 2>>
    /\ bc_disconnected = <<1>>
    /\ bc_sent = {2}
    /\ bc_removed = {1}
    /\ active_connections = <<2>>

\* the current iteration is over: a failed read or a caught exception has
\* sent the loop to its backoff, or the iteration has run to its sleep
IterationEnded == vis_pc \in {"backoff", "top", "returned"}

\* C16: an exception raised by detect_hands or by the detector call of
\* FaceTracker.update is caught by the guard of the loop body, not inside
\* update (the tracker state is as it was when the iteration started or as
\* the hands step left it); it ends that iteration only, and the loop is
\* left only once the stop flag is set
C16_DetectorErrorEndsIterationOnly ==
    /\ (vis_pc = "returned" /\ ~vis_init_failed) => vis_stop
    /\ \A k \in 1..Len(vis_events) :
          vis_events[k] \in {"detect_hands_raised", "face_update_raised"} =>
              /\ k < Len(vis_events)
              /\ vis_events[k + 1] = "caught"
              /\ Range(SubSeq(vis_events, k + 2, Len(vis_events))) \subseteq {"backoff"}
              /\ IterationEnded
              /\ TrackerState = vis_snap
              /\ \A j \in 1..Len(cb_log) :
                    (cb_log[j].iter = vis_iter) => cb_log[j].kind = "finger_count"

C16_Witness ==
    /\ ~vis_stop
    /\ vis_caught = << <<1, "detect_hands">>, <<2, "face_update">> >>
    /\ vis_iter = 3
    /\ vis_pc = "sleep"
    /\ result.tracking

C19_FailedReadSkipsIteration ==
    (vis_events # <<>> /\ vis_events[1] = "read_failed") =>
        /\ IterationEnded
        /\ (vis_pc = "returned" => vis_stop)
        /\ (vis_pc \in {"top", "returned"} => vis_events = <<"read_failed", "backoff">>)
        /\ (vis_pc = "backoff" => vis_events = <<"read_failed">>)
        /\ TrackerState = vis_snap
        /\ \A j \in 1..Len(cb_log) : cb_log[j].iter # vis_iter

C19_Witness ==
    /\ vis_events = <<"read_failed", "backoff">>
    /\ vis_pc = "top"
    /\ ~vis_stop
    /\ vis_iter = 2
    /\ Len(cb_log) = 2
    /\ lost_frames = 0
    /\ pid_yaw.prev_error # Zero

\* C20: in the order of their invocation, callbacks of an earlier iteration
\* come before those of a later one, the two callbacks of one iteration are
\* the finger-count callback followed by the tracking callback, each once,
\* and a tracking callback comes only after the finger-count callback of
\* the same iteration
C20_FingerThenTracking ==
    /\ \A i, j \in 1..Len(cb_log) :
          i < j =>
              /\ cb_log[i].iter <= cb_log[j].iter
              /\ (cb_log[i].iter = cb_log[j].iter) =>
                    /\ cb_log[i].kind = "finger_count"
                    /\ cb_log[j].kind = "tracking"
    /\ \A j \in 1..Len(cb_log) :
          cb_log[j].kind = "tracking" =>
              \E i \in 1..(j - 1) :
                  /\ cb_log[i].kind = "finger_count"
                  /\ cb_log[i].iter = cb_log[j].iter

C20_Witness ==
    cb_log = << [kind |-> "finger_count", iter |-> 1],
                [kind |-> "tracking",     iter |-> 1],
                [kind |-> "finger_count", iter |-> 2],
                [kind |-> "finger_count", iter |-> 3],
                [kind |-> "tracking",     iter |-> 3] >>

Clamp(x, lo, hi) == IF RLt(x, lo) THEN lo ELSE IF RLt(hi, x) THEN hi ELSE x

\* C27: after calculate_head_pose with a result whose tracking is true, the
\* yaw is clamp(old yaw + yaw correction, -yaw_amplitude, +yaw_amplitude),
\* the pitch is clamp(old pitch + pitch correction, pitch_min, pitch_max),
\* and the returned pose is built from these two values
C27_TrackedPoseIsClampedSum ==
    (pose_arg # <<>> /\ pose_arg[1].tracking) =>
        /\ current_yaw_deg =
              Clamp(RAdd(pose_prev[1], pose_arg[1].yaw_correction_deg),
                    RNeg(config.yaw_amplitude), config.yaw_amplitude)
        /\ current_pitch_deg =
              Clamp(RAdd(pose_prev[2], pose_arg[1].pitch_correction_deg),
                    config.pitch_min, config.pitch_max)
        /\ pose_out = <<current_yaw_deg, current_pitch_deg>>

C27_Witness ==
    /\ pose_arg # <<>>
    /\ pose_arg[1].tracking
    /\ pose_prev[1] # Zero
    /\ pose_prev[2] # Zero
    /\ RLt(RAdd(pose_prev[1], pose_arg[1].yaw_correction_deg), RNeg(config.yaw_amplitude))
    /\ current_yaw_deg = RNeg(config.yaw_amplitude)
    /\ current_pitch_deg = RAdd(pose_prev[2], pose_arg[1].pitch_correction_deg)
    /\ current_pitch_deg # pose_prev[2]
    /\ pose_out = <<current_yaw_deg, current_pitch_deg>>

\* C28: a frame with a target returns tracking = true, the selected target,
\* dx = x_center - 1/2 and dy = y_center - 1/2 of the target, the negated
\* output of the yaw controller updated with dx as yaw correction and the
\* output of the pitch controller updated with dy as pitch correction; each
\* controller is updated exactly once, the yaw one from dx alone and the
\* pitch one from dy alone
C28_TrackedFrameResult ==
    [][ (Len(frame_log') = Len(frame_log) + 1 /\ frame_log'[Len(frame_log')]) =>
          LET faces == result'.faces
              t == result'.target
              dx == RSub(faces[t].x_center, Half)
              dy == RSub(faces[t].y_center, Half)
              uy == PIDUpdate(pid_yaw, dx, frame_dt')
              up == PIDUpdate(pid_pitch, dy, frame_dt')
          IN  /\ result'.tracking
              /\ t = SelectTarget(faces)
              /\ t \in 1..Len(faces)
              /\ result'.dx = dx
              /\ result'.dy = dy
              /\ result'.yaw_correction_deg = RNeg(uy.out)
              /\ result'.pitch_correction_deg = up.out
              /\ pid_yaw' = uy.pid
              /\ pid_pitch' = up.pid
              /\ pid_calls' = <<"yaw.update", "pitch.update">>
      ]_vars

C28_Witness ==
    /\ frame_log = <<TRUE, FALSE, TRUE>>
    /\ result.tracking
    /\ result.dx = Rat(-1, 4)
    /\ result.dy = Rat(1, 4)
    /\ RLt(Zero, result.yaw_correction_deg)
    /\ RLt(Zero, result.pitch_correction_deg)

\* C29: on every tracked frame a target right of the centre (dx > 0) has a
\* non-positive yaw correction and a target left of it (dx < 0) a
\* non-negative one, whatever the tracking history
C29_SignFollowsOffset ==
    result.tracking =>
        /\ RLt(Zero, result.dx) => RLe(result.yaw_correction_deg, Zero)
        /\ RLt(result.dx, Zero) => RLe(Zero, result.yaw_correction_deg)

\* C29, amended: the sign convention holds on a tracked frame when the yaw
\* controller's integral and the change of dx since its previous update do
\* not oppose dx (as on the first update after construction or reset)
C29_SignWhenHistoryAgrees ==
    [][ (Len(frame_log') = Len(frame_log) + 1 /\ frame_log'[Len(frame_log')]) =>
          /\ (/\ RLt(Zero, result'.dx)
              /\ RLe(Zero, pid_yaw.integral)
              /\ RLe(pid_yaw.prev_error, result'.dx))
                => RLe(result'.yaw_correction_deg, Zero)
          /\ (/\ RLt(result'.dx, Zero)
              /\ RLe(pid_yaw.integral, Zero)
              /\ RLe(result'.dx, pid_yaw.prev_error))
                => RLe(Zero, result'.yaw_correction_deg)
      ]_vars

C29_Witness ==
    /\ frame_log = <<TRUE, TRUE>>
    /\ result.tracking
    /\ result.dx = Rat(1, 4)
    /\ RLt(Rat(1, 4), pid_yaw.integral)
    /\ RLt(result.yaw_correction_deg, Zero)

\* C21: once the stop flag is set, the loop function eventually returns,
\* wherever in an iteration the thread was and whatever reads fail or
\* detector calls raise, provided each call returns
C21_StopLeadsToReturn == vis_stop ~> (vis_pc = "returned")

C21_Witness ==
    /\ vis_stop
    /\ vis_pc = "returned"
    /\ vis_stop_at[1].pc = "faces"
    /\ vis_stop_at[1].iter = 2
    /\ vis_caught = << <<1, "detect_hands">>, <<2, "face_update">> >>

\* what an iteration does when nothing fails
FullIteration ==
    <<"read", "detect_hands", "finger_cb", "face_update", "tracking_cb", "sleep">>

\* C30: the stop flag is read only by the loop test: no iteration starts
\* after it is set, the loop is never left in the middle of an iteration,
\* and an iteration that had its frame when the flag was set and in which
\* nothing raised has run both detections and delivered both callbacks by
\* the time the loop function returns
C30_StopObservedAtTopOnly ==
    /\ vis_stop => vis_iter = vis_stop_at[1].iter
    /\ (vis_pc = "returned" /\ vis_iter > 0) =>
          vis_events[Len(vis_events)] \in {"sleep", "backoff"}
    /\ (/\ vis_pc = "returned"
        /\ vis_stop
        /\ vis_stop_at[1].pc \in {"hands", "finger_cb", "faces", "tracking_cb", "sleep"}
        /\ \A k \in 1..Len(vis_caught) : vis_caught[k][1] # vis_iter) =>
          /\ vis_events = FullIteration
          /\ \E j \in 1..(Len(cb_log) - 1) :
                /\ cb_log[j] = [kind |-> "finger_count", iter |-> vis_iter]
                /\ cb_log[j + 1] = [kind |-> "tracking", iter |-> vis_iter]

C30_Witness ==
    /\ vis_pc = "returned"
    /\ vis_stop
    /\ vis_stop_at = << [iter |-> 2, pc |-> "hands"] >>
    /\ vis_iter = 2
    /\ vis_events = FullIteration
    /\ Len(cb_log) = 4
    /\ result.tracking

\* C26: the pacing sleep at the end of an iteration lasts the remainder of
\* the frame budget, max(0, 1/target_fps - processing time): less than the
\* budget when processing took time, nothing when it exceeded the budget
C26_SleepsRemainderOfBudget ==
    (vis_events # <<>> /\ vis_events[Len(vis_events)] = "sleep") =>
        /\ vis_slept = RMax(Zero, RSub(Rat(1, config.target_fps), vis_proc))
        /\ RLt(Zero, vis_proc) => RLt(vis_slept, Rat(1, config.target_fps))
        /\ RLe(Rat(1, config.target_fps), vis_proc) => vis_slept = Zero

\* C22: on shutdown after a stop signal the camera is released before any
\* detector resource is closed, and once the shutdown is complete the camera
\* and the detector are both released
C22_CameraReleasedFirst ==
    /\ \A i, j \in 1..Len(vid_released) :
          (i < j /\ vid_released[j] = "camera") => vid_released[i] # "landmarker"
    /\ (vid_pc = "returned" /\ vid_landmarker # "none") =>
          /\ vid_cap = "released"
          /\ vid_landmarker = "closed"

\* C23: on every websocket the first message sent is the finger-count
\* snapshot of its endpoint, and it is sent once: no broadcast message goes
\* out on a connection before its snapshot, however connects and broadcasts
\* interleave
C23_SnapshotFirst ==
    \A c \in Conns :
        /\ ws_wire[c] # <<>> => ws_wire[c][1] = "snapshot"
        /\ \A k \in 2..Len(ws_wire[c]) : ws_wire[c][k] = "broadcast"

C23_Witness ==
    /\ bc_n = 2
    /\ bc_pc = "done"
    /\ ws_wire[1] = <<"snapshot", "broadcast", "broadcast">>
    /\ ws_wire[2] = <<"snapshot", "broadcast">>

\* C24: every AppState accessor is atomic and touches one field: when an
\* accessor is about to return, what a getter has read is the value the
\* most recent completed setter of that field left (or the initial value),
\* the field of a setter holds the value it wrote, and every other field is
\* as it was when the accessor took the lock, whatever the other tasks did
C24_AccessorsAtomicOneField ==
    \A t \in Tasks :
        lk_pc[t] = "as_release" =>
            /\ lk_op[t].kind \in { "get", "take" } =>
                   lk_ret[t] = lk_committed[lk_op[t].field]
            /\ lk_op[t].kind = "get" =>
                   app_state[lk_op[t].field] = lk_snap[t][lk_op[t].field]
            /\ lk_op[t].kind = "set" => app_state[lk_op[t].field] = lk_op[t].val
            /\ lk_op[t].kind = "take" => app_state[lk_op[t].field] = None
            /\ \A g \in Fields \ { lk_op[t].field } : app_state[g] = lk_snap[t][g]

C24_Witness ==
    /\ lk_pc["control"] = "as_release"
    /\ lk_op["control"].name = "get_robot_control_command"
    /\ lk_ret["control"] = "left"
    /\ lk_pc["http"] = "as_wait"
    /\ lk_pc["vision"] = "as_wait"
    /\ app_state.finger_count = 2
    /\ app_state.antennas_enabled = FALSE

\* a task that holds a lock and is inside its with block, able to go on
InsideWith(t) ==
    /\ lk_pc[t] \in { "as_body", "as_clear", "as_release", "cm_body", "cm_release" }
    /\ Runs(t)

\* C25: no task holds both locks; a task that is suspended in an await, or
\* waits for a lock, holds neither; so the holder of a lock is always inside
\* its with block and able to leave it, and no task waits for ever
C25_NoNestingNoHoldAcrossWait ==
    /\ \A t \in Tasks : ~(as_lock = t /\ cm_lock = t)
    /\ \A t \in Tasks :
          lk_pc[t] \in AwaitPcs \cup { "as_wait", "cm_wait" } =>
              (as_lock # t /\ cm_lock # t)
    /\ as_lock # "free" => InsideWith(as_lock)
    /\ cm_lock # "free" => InsideWith(cm_lock)

C25_Witness ==
    /\ lk_pc["ws"] = "as_wait"
    /\ as_lock = "http"
    /\ cm_lock = "free"
    /\ active_connections = << 1 >>
    /\ lk_pc["push"] = "bc_send"
    /\ lk_pc["control"] = "as_wait"

\* C31: broadcast sends to the connections of the snapshot taken at its
\* start, in order, and to no other: a websocket registered after the
\* snapshot is not sent this message; a websocket whose endpoint has
\* disconnected is not put back into the registry; and while the sends are
\* in flight the registry lock is free, so a connect or a disconnect that
\* is due can complete
C31_BroadcastUsesSnapshotOutsideLock ==
    /\ bc_pc \in { "send", "done" } =>
          bc_sent \cup Range(bc_disconnected)
              = { bc_connections[k] : k \in 1..(bc_i - 1) }
    /\ \A c \in Conns : ws_state[c] = "closed" => c \notin Range(active_connections)
    /\ bc_pc = "send" =>
          /\ cm_lock = "free"
          /\ (\E c \in Conns : ws_state[c] = "accepted") => ENABLED WsRegister
          /\ (\E c \in Conns : ws_state[c] \in { "open", "failed" }) => ENABLED WsDisconnect

C31_Witness ==
    /\ bc_pc = "send"
    /\ bc_connections = << 1 >>
    /\ bc_i = 2
    /\ bc_sent = { 1 }
    /\ ws_state[1] = "closed"
    /\ active_connections = << 2 >>
    /\ ws_wire[2] = << "snapshot" >>

\* C32: an update with dt <= 0 returns what update(error, 0.001) returns
\* from the same state and leaves the same integral and previous error, and
\* every update divides by a positive dt
C32_NonPositiveDtIsFloored ==
    [][ pid_n' = pid_n + 1 =>
          /\ RLt(Zero, pid_div'[1])
          /\ RLe(pid_dt', Zero) =>
                LET u == PIDUpdate(pid, pid_err', Rat(1, 1000)) IN
                /\ pid' = u.pid
                /\ pid_out' = u.out
                /\ pid_div'[1] = Rat(1, 1000) ]_vars

C32_Witness ==
    /\ pid_n = 2
    /\ RLt(pid_dt, Zero)
    /\ pid_div = << Rat(1, 1000) >>
    /\ pid.kd # Zero
    /\ pid.prev_error = Rat(1, 4)
    /\ pid.integral # Zero
    /\ pid_out = pid.output_limit

\* C33: two controllers with equal gains and limits, fed opposite errors
\* and the same dt values, always hold opposite integrals and previous
\* errors and return opposite outputs: the negated output of the one is
\* the output of the other, which was fed the negated error
C33_ControllerIsOdd ==
    /\ pid_mirror.kp = pid.kp /\ pid_mirror.ki = pid.ki /\ pid_mirror.kd = pid.kd
    /\ pid_mirror.output_limit = pid.output_limit
    /\ pid_mirror.integral_limit = pid.integral_limit
    /\ pid_mirror.integral = RNeg(pid.integral)
    /\ pid_mirror.prev_error = RNeg(pid.prev_error)
    /\ RNeg(pid_out) = pid_mirror_out

C33_Witness ==
    /\ pid_n = 2
    /\ pid.integral = RNeg(pid.integral_limit)
    /\ pid_mirror.integral = pid.integral_limit
    /\ RLt(pid_out, Zero)
    /\ RLt(RNeg(pid.output_limit), pid_out)
    /\ RLt(Zero, pid_mirror_out)
    /\ pid.ki # Zero

\* C34: the vision loop reads no frame from a released camera and runs no
\* detection on a closed detector, and stop releases the camera and closes
\* the detectors only once the loop function has returned, whether the
\* join found the thread ended or timed out
C34_ResourcesReleasedAfterLoopReturns ==
    [][ /\ (vis_pc = "read" /\ vis_pc' # "read") => ~cam_released
        /\ (vis_pc = "hands" /\ vis_pc' # "hands") => ~hands_closed
        /\ (vis_pc = "faces" /\ vis_pc' # "faces") => ~faces_closed
        /\ (cam_released' /\ ~cam_released) => vis_pc = "returned"
        /\ (hands_closed' /\ ~hands_closed) => vis_pc = "returned"
        /\ (faces_closed' /\ ~faces_closed) => vis_pc = "returned" ]_vars

\* the number of threads running _process_loop
AliveThreads == vp_orphans + (IF vp_thread = "set" /\ vis_pc # "returned" THEN 1 ELSE 0)

\* C37: with one owner calling start and stop, at most one vision thread is
\* alive at any time: a start while the thread is alive creates no thread
\* and leaves the stop flag as it is, a stop before any start changes
\* nothing, and a start when no thread is alive (none yet, or the previous
\* one has ended) creates one thread that begins _process_loop with the
\* stop flag clear
C37_AtMostOneVisionThread ==
    [][ /\ AliveThreads' <= 1
        /\ (own_n' = own_n + 1 /\ own_op' = "start") =>
              IF vp_thread = "set" /\ vis_pc # "returned"
              THEN /\ vp_started' = vp_started
                   /\ UNCHANGED <<visVars, trackerVars>>
              ELSE /\ vp_started' = vp_started + 1
                   /\ vis_pc' = "init_camera"
                   /\ ~vis_stop'
                   /\ AliveThreads' = 1
        /\ (own_n' = own_n + 1 /\ own_op' = "stop" /\ vp_thread = "none") =>
              /\ UNCHANGED <<visVars, trackerVars, vp_thread, vp_started,
                             cam_released, hands_closed, faces_closed>>
              /\ own_pc' = "idle" ]_vars

C37_Witness ==
    /\ own_n = 3
    /\ own_op = "start"
    /\ own_joined
    /\ vp_started = 2
    /\ vis_pc = "hands"
    /\ ~vis_stop
    /\ cb_log # <<>>

\* C35: no sound request is lost: once a POST /play_sound has completed and
\* stop is not set, either a play has been made for it or the control loop
\* is still running its ticks and will reach the flag
C35_NoSoundRequestLost ==
    (snd_requests > 0 /\ ~ctl_stop) =>
        \/ ctl_plays > 0
        \/ ctl_pc \in { "check", "read", "pose" }

\* a step in which task t leaves pc from of get_robot_control_command
TakeStep(t, from) ==
    /\ lk_op[t].name = "get_robot_control_command"
    /\ lk_pc[t] = from
    /\ lk_pc'[t] # from

\* C36: get_robot_control_command reads and clears the pending command as
\* one step of the shared state: what it reads is the command the last
\* completed set stored (None when nothing is pending), what it clears is
\* what it returns, and when it returns nothing is pending, so that no
\* command is returned twice, returned and left pending, or cleared unreturned
C36_CommandTakenOnce ==
    [][ \A t \in Tasks :
          /\ TakeStep(t, "as_body") =>
                /\ lk_ret'[t] = lk_committed.robot_control_command
                /\ app_state.robot_control_command = None => lk_ret'[t] = None
                /\ lk_pc'[t] = "as_clear"
          /\ TakeStep(t, "as_clear") =>
                /\ app_state.robot_control_command = lk_ret[t]
                /\ app_state'.robot_control_command = None
          /\ TakeStep(t, "as_release") =>
                /\ app_state.robot_control_command = None
                /\ lk_committed'.robot_control_command = None ]_vars

C36_Witness ==
    /\ lk_pc["control"] = "as_release"
    /\ lk_op["control"].name = "get_robot_control_command"
    /\ lk_ret["control"] = "up"
    /\ lk_snap["control"].robot_control_command = "up"
    /\ app_state.robot_control_command = None
    /\ lk_pc["http"] = "as_wait"
    /\ app_state.sound_play_requested

\* C38: react_to_finger_count is called on a frame only if the count of the
\* frame equals the count of the frame before it and at least REACTION_DELAY
\* has passed since the count last changed; a frame whose count differs
\* from the one before triggers no reaction and restarts the timer
C38_ReactionOnlyWhenStable ==
    /\ app_reacted =>
          /\ app_prev_fc # -1
          /\ app_fc = app_prev_fc
          /\ app_frame_at - app_changed_at >= app_config.reaction_delay
    /\ (app_fc # -1 /\ app_fc # app_prev_fc) =>
          /\ ~app_reacted
          /\ finger_count_stable_time = app_frame_at
          /\ app_changed_at = app_frame_at

C38_Witness ==
    /\ app_reacted
    /\ app_fc = 1
    /\ app_prev_fc = 1
    /\ app_changed_at > 0
    /\ app_frame_at - app_changed_at = 6
    /\ app_config.reaction_delay = 5
    /\ app_now > app_frame_at

\* C39: the tracked yaw stays within [-2*pi, 2*pi]; left and right change
\* it by one step of 30 degrees, wrapped by 2*pi; center and reset set it
\* to 0; an unknown direction, or any call while the robot is not
\* connected, leaves it unchanged and issues no robot command
C39_YawWithinTwoPi ==
    /\ -TwoPi <= current_yaw /\ current_yaw <= TwoPi
    /\ rc_last # <<>> =>
          LET m == rc_last[1] IN
          /\ (~rc_connected \/ m.direction = "forward") =>
                (current_yaw = m.before /\ ~m.issued)
          /\ (rc_connected /\ m.direction \in { "center", "reset" }) => current_yaw = 0
          /\ (rc_connected /\ m.direction = "left") =>
                current_yaw \in { m.before - 1, m.before - 1 + TwoPi }
          /\ (rc_connected /\ m.direction = "right") =>
                current_yaw \in { m.before + 1, m.before + 1 - TwoPi }
          /\ (rc_connected /\ m.direction \in { "up", "down" }) => current_yaw = m.before

C39_Witness ==
    /\ rc_connected
    /\ rc_n = 13
    /\ rc_last = << [direction |-> "right", before |-> TwoPi, issued |-> TRUE] >>
    /\ current_yaw = 1

====
